---- MODULE Spec2Model ----
(***************************************************************************)
(* A model of the onnxscript optimizer driver (optimizer/__init__.py), of  *)
(* the rewrite rules it registers (rewriter/broadcast_to_matmul.py,        *)
(* rewriter/gemm_to_matmul_add.py) and of the guards of those rules.       *)
(*                                                                         *)
(* Two specifications share the module:                                    *)
(*   SpecGuard  the guards as functions of their bindings: the initial     *)
(*              state draws the bindings, the actions call the guard;      *)
(*   Spec       optimize(): the loop over the passes, with the rule sweep  *)
(*              of rewriter.rewrite stepping through its anchors.          *)
(***************************************************************************)
EXTENDS Integers, Sequences, FiniteSets, TLC

VARIABLES
    \* ---- SpecGuard: one guard call site
    gkind,          \* which guard is called: "reshape" | "instnorm" | "idle"
    bindings,       \* match_bindings: name -> Value (the objects the guard is handed)
    bindings0,      \* history: match_bindings as they were before the first call
    ret,            \* result of the latest call: "True" | "False" | an exception name | "none"
    prevRet,        \* result of the call before the latest one
    calls,          \* number of calls made so far
    \* ---- Spec: optimize()
    pc,             \* position in optimize
    args,           \* optimize's arguments: num_iterations, stop_if_no_change, onnx_shape_inference
    iter,           \* the loop variable `_` of `for _ in range(num_iterations)`
    modified,       \* the local `modified`
    model,          \* the object the local `model` refers to
    callerModel,    \* the object the caller passed in
    aliased,        \* whether `model` still is the caller's object
    sweep,          \* the running rule sweep: snapshot, position
    hist,           \* history: per-iteration pass log and change flags, rule applications
    \* ---- SpecSerde: one deserialize / serialize round of ir/serde.py
    message,        \* the protobuf message handed to the deserializer
    ir,             \* the IR object the deserializer returned, or the exception it raised
    emitted,        \* the protobuf message the serializer filled in, or its exception
    reread,         \* the IR object deserialized from the emitted message
    spc,            \* position in the round: "message" | "ir" | "raised" | "emitted" |
                    \* "reread" | "idle"
    \* ---- SpecAttn: one call of a method of an attention rewrite rule
    sourceFunction, \* the onnx.FunctionProto handed to the method, with the shapes
                    \* self.lookup knows for its values
    method,         \* the method that is called
    result,         \* what the call returned, or the exception it raised
    apc             \* "call" | "returned" | "raised" | "idle"

guardVars == <<gkind, bindings, bindings0, ret, prevRet, calls>>
optVars == <<pc, args, iter, modified, model, callerModel, aliased, sweep, hist>>
serdeVars == <<message, ir, emitted, reread, spc>>
attnVars == <<sourceFunction, method, result, apc>>
vars == <<gkind, bindings, bindings0, ret, prevRet, calls,
          pc, args, iter, modified, model, callerModel, aliased, sweep, hist,
          message, ir, emitted, reread, spc,
          sourceFunction, method, result, apc>>

(***************************************************************************)
(* Bounds                                                                  *)
(***************************************************************************)
\* largest rank of an enumerated tensor shape
MaxRank == 3

\* dimension values of the enumerated shapes: 1 broadcasts, 2 does not
Dims == {1, 2}

(***************************************************************************)
(* Python lists                                                            *)
(***************************************************************************)
\* s[-k] is defined (no IndexError)
HasNegIndex(s, k) == Len(s) >= k

\* s[-k], k >= 1
NegIndex(s, k) == s[Len(s) - k + 1]

\* s[:stop] with Python's slice rules for a negative or too large stop
SliceTo(s, stop) ==
    LET n == IF stop < 0
             THEN (IF Len(s) + stop < 0 THEN 0 ELSE Len(s) + stop)
             ELSE (IF stop > Len(s) THEN Len(s) ELSE stop)
    IN  SubSeq(s, 1, n)

\* reversed(s)
Reversed(s) == [i \in 1..Len(s) |-> s[Len(s) - i + 1]]

Max(x, y) == IF x > y THEN x ELSE y

\* F applied to the value of x: x is evaluated once, however often F reads it
Bind(x, F(_)) == CHOOSE r \in {F(y) : y \in {x}} : TRUE

Min(x, y) == IF x < y THEN x ELSE y

(***************************************************************************)
(* Values: ir.Value.shape and ir.Value.value_as_np_array                   *)
(***************************************************************************)
\* shape is None
NoShape == [tag |-> "None", dims |-> <<>>]

\* shape is a list of ints
Shape(d) == [tag |-> "list", dims |-> d]

\* value_as_np_array is None: the value is not a known constant
NoArray == [tag |-> "None", ndim |-> 0, data |-> <<>>]

\* value_as_np_array is something that is not an np.ndarray
NotAnArray == [tag |-> "other", ndim |-> 0, data |-> <<>>]

\* value_as_np_array is an np.ndarray of ndim dimensions holding data (flattened)
NdArray(n, d) == [tag |-> "ndarray", ndim |-> n, data |-> d]

\* a 1-D constant array
Array1D(d) == NdArray(1, d)

Value(s, c) == [shape |-> s, value_as_np_array |-> c]

(***************************************************************************)
(* A local variable that holds a list: the object it refers to (one of the *)
(* bound shape lists, or a list made inside the call) and its contents.    *)
(***************************************************************************)
Fresh(v) == [ref |-> "fresh", val |-> v]

Alias(name, v) == [ref |-> name, val |-> v]

\* the bindings once the list object `obj` holds obj.val: a list made inside
\* the call is no part of them
WriteBack(mb, obj) ==
    IF obj.ref = "fresh" THEN mb
    ELSE [mb EXCEPT ![obj.ref].shape = Shape(obj.val)]

Return(r, mb) == [ret |-> r, bindings |-> mb]


(***************************************************************************)
(* check_if_need_reshape (rewriter/broadcast_to_matmul.py)                 *)
(***************************************************************************)
\* line 66: input_a_shape = [1, *input_a_shape], a new list
\* line 66 done in place (input_a_shape.insert(0, 1)) on the bound list
PrependOneInPlace(obj) == [obj EXCEPT !.val = <<1>> \o @]

PrependOne(obj) == Fresh(<<1>> \o obj.val)

\* line 76: input_b_shape = [*input_b_shape, 1], a new list
AppendOne(obj) == Fresh(obj.val \o <<1>>)

\* line 115: broadcast_matmul_output_shape.pop(-2), in place
ListPop(obj, k) ==
    [obj EXCEPT !.val = SubSeq(@, 1, Len(@) - k) \o SubSeq(@, Len(@) - k + 2, Len(@))]

\* lines 86-99: the loop over zip(reversed(...), reversed(...)); ra and rb are the
\* reversed lists, idx the enumerate index, out broadcast_matmul_output_shape
RECURSIVE BroadcastLoop(_, _, _, _)
BroadcastLoop(ra, rb, idx, out) ==
    IF idx >= Min(Len(ra), Len(rb)) THEN [ok |-> TRUE, out |-> out]
    ELSE LET dim_from_a == ra[idx + 1]
             dim_from_b == rb[idx + 1]
         IN  IF dim_from_a \notin {1, dim_from_b}
             THEN [ok |-> FALSE, out |-> out]
             ELSE BroadcastLoop(ra, rb, idx + 1,
                                IF idx > 0
                                THEN <<Max(dim_from_a, dim_from_b)>> \o out
                                ELSE out)

\* lines 101-124: the output shape check
OutputShapeCheck(mb, a, b, out, mimic_matmul_broadcast_behavior, shape_c) ==
    LET dim_a == Len(a.val)
        dim_b == Len(b.val)
        longer_shape == IF dim_a > dim_b THEN a ELSE b
        shorter_shape == IF dim_a > dim_b THEN b ELSE a
        out1 == Fresh(SliceTo(longer_shape.val, 0 - Len(shorter_shape.val)) \o out)
        out2 == IF mimic_matmul_broadcast_behavior /\ dim_b = 2
                THEN Fresh(SliceTo(out1.val, -1))
                ELSE out1
    IN  IF mimic_matmul_broadcast_behavior /\ dim_a = 2 /\ ~HasNegIndex(out2.val, 2)
        THEN Return("IndexError", mb)
        ELSE LET out3 == IF mimic_matmul_broadcast_behavior /\ dim_a = 2
                         THEN ListPop(out2, 2)
                         ELSE out2
                 mb3 == WriteBack(mb, out3)
             IN  IF shape_c # out3.val THEN Return("False", mb3)
                 ELSE Return("True", mb3)

\* lines 79-99 with line 85 reading input_b_shape[-2] for the last output dimension
BroadcastCheckWrongLastDim(mb, a, b, mimic_matmul_broadcast_behavior, shape_c) ==
    LET input_a_shape_except_second_last_dim ==
            SliceTo(a.val, -2) \o <<NegIndex(a.val, 1)>>
        input_b_shape_except_last_dim == SliceTo(b.val, -1)
        broadcast_matmul_output_shape == <<NegIndex(a.val, 2), NegIndex(b.val, 2)>>
        loop == BroadcastLoop(Reversed(input_a_shape_except_second_last_dim),
                              Reversed(input_b_shape_except_last_dim),
                              0, broadcast_matmul_output_shape)
    IN  IF ~loop.ok THEN Return("False", mb)
        ELSE OutputShapeCheck(mb, a, b, loop.out,
                              mimic_matmul_broadcast_behavior, shape_c)

\* lines 79-99: the broadcast check of the batch dimensions
BroadcastCheck(mb, a, b, mimic_matmul_broadcast_behavior, shape_c) ==
    LET input_a_shape_except_second_last_dim ==
            SliceTo(a.val, -2) \o <<NegIndex(a.val, 1)>>
        input_b_shape_except_last_dim == SliceTo(b.val, -1)
        broadcast_matmul_output_shape == <<NegIndex(a.val, 2), NegIndex(b.val, 1)>>
        loop == BroadcastLoop(Reversed(input_a_shape_except_second_last_dim),
                              Reversed(input_b_shape_except_last_dim),
                              0, broadcast_matmul_output_shape)
    IN  IF ~loop.ok THEN Return("False", mb)
        ELSE OutputShapeCheck(mb, a, b, loop.out,
                              mimic_matmul_broadcast_behavior, shape_c)

\* lines 69-78: a 1-D second input
PromoteB(mb, a, b, mimic_matmul_broadcast_behavior, shape_c) ==
    IF Len(b.val) < 2
    THEN IF ~HasNegIndex(b.val, 1) \/ ~HasNegIndex(a.val, 1)
         THEN Return("IndexError", mb)
         ELSE IF NegIndex(b.val, 1) # NegIndex(a.val, 1)
         THEN Return("False", mb)
         ELSE LET b1 == AppendOne(b)
              IN  BroadcastCheck(WriteBack(mb, b1), a, b1, TRUE, shape_c)
    ELSE BroadcastCheck(mb, a, b, mimic_matmul_broadcast_behavior, shape_c)

\* lines 54-68: a 1-D first input
PromoteA(mb, a, b, shape_c) ==
    IF Len(a.val) < 2
    THEN IF ~HasNegIndex(a.val, 1) \/ ~HasNegIndex(b.val, 2)
         THEN Return("IndexError", mb)
         ELSE IF NegIndex(a.val, 1) # NegIndex(b.val, 2)
         THEN Return("False", mb)
         ELSE LET a1 == PrependOne(a)
              IN  PromoteB(WriteBack(mb, a1), a1, b, TRUE, shape_c)
    ELSE PromoteB(mb, a, b, FALSE, shape_c)

\* the guard without the check of line 50: a shape that is None is read as
\* the empty list
check_if_need_reshape_unchecked_shapes(mb) ==
    LET input_a_shape == mb.input_a.shape
        input_b_shape == mb.input_b.shape
        shape_c == mb.shape_c.value_as_np_array
    IN  IF shape_c.tag = "None" THEN Return("False", mb)
        ELSE IF shape_c.tag # "ndarray" THEN Return("False", mb)
        ELSE IF shape_c.ndim # 1 THEN Return("False", mb)
        ELSE PromoteA(mb, Alias("input_a", input_a_shape.dims),
                      Alias("input_b", input_b_shape.dims), shape_c.data)

\* lines 16-124: the guard; the result is what the call returns or raises, and the
\* bindings as the call leaves them
check_if_need_reshape(mb) ==
    LET input_a_shape == mb.input_a.shape
        input_b_shape == mb.input_b.shape
        shape_c == mb.shape_c.value_as_np_array
    IN  IF shape_c.tag = "None" THEN Return("False", mb)
        ELSE IF shape_c.tag # "ndarray" THEN Return("False", mb)
        ELSE IF shape_c.ndim # 1 THEN Return("False", mb)
        ELSE IF input_a_shape.tag = "None" \/ input_b_shape.tag = "None"
        THEN Return("False", mb)
        ELSE PromoteA(mb, Alias("input_a", input_a_shape.dims),
                      Alias("input_b", input_b_shape.dims), shape_c.data)

(***************************************************************************)
(* check_if_simulated_instance_norm_is_used                                *)
(* (rewriter/onnxruntime/instance_to_group_normalization.py)               *)
(***************************************************************************)
\* np.all(array == k); None == k is False
NpAllEqual(arr, k) ==
    /\ arr.tag = "ndarray"
    /\ \A i \in 1..Len(arr.data) : arr.data[i] = k

\* all(dim == 1 for dim in shape[1:])
AllOnesExceptFirst(dims) == \A i \in 2..Len(dims) : dims[i] = 1

\* array.tolist() == lst, for an array that is not None
ToListEquals(arr, lst) == arr.tag = "ndarray" /\ arr.ndim = 1 /\ arr.data = lst

\* lines 19-61
check_if_simulated_instance_norm_is_used_impl(mb) ==
    IF ~NpAllEqual(mb.weight_for_norm.value_as_np_array, 1) THEN Return("False", mb)
    ELSE IF ~NpAllEqual(mb.bias_for_norm.value_as_np_array, 0) THEN Return("False", mb)
    ELSE IF mb.input_x.shape.tag = "None" THEN Return("TypeError", mb)
    ELSE IF mb.weight_full.shape.tag = "None" THEN Return("TypeError", mb)
    ELSE IF mb.bias_full.shape.tag = "None" THEN Return("TypeError", mb)
    ELSE
    LET input_rank_minus_one == Len(mb.input_x.shape.dims) - 1
        weight_full_rank == Len(mb.weight_full.shape.dims)
        bias_full_rank == Len(mb.bias_full.shape.dims)
        input_rank == Len(mb.input_x.shape.dims)
        adjusted_input_shape == mb.adjusted_input_shape.value_as_np_array
        original_input_shape == mb.original_input_shape.value_as_np_array
    IN  IF weight_full_rank # input_rank_minus_one \/ bias_full_rank # input_rank_minus_one
        THEN Return("False", mb)
        ELSE IF input_rank # 4 THEN Return("False", mb)
        ELSE IF ~AllOnesExceptFirst(mb.weight_full.shape.dims) THEN Return("False", mb)
        ELSE IF ~AllOnesExceptFirst(mb.bias_full.shape.dims) THEN Return("False", mb)
        ELSE IF mb.weight_for_norm.shape.tag = "None" THEN Return("TypeError", mb)
        ELSE IF Len(mb.weight_for_norm.shape.dims) = 0 THEN Return("IndexError", mb)
        ELSE
        LET g == mb.weight_for_norm.shape.dims[1]
        IN  IF adjusted_input_shape.tag = "None"
               \/ ~ToListEquals(adjusted_input_shape, <<0, g, -1>>)
            THEN Return("False", mb)
            ELSE IF original_input_shape.tag = "None"
                    \/ ~ToListEquals(original_input_shape, mb.input_x.shape.dims)
            THEN Return("False", mb)
            ELSE Return("True", mb)

\* lines 64-87
check_if_simulated_instance_norm_is_used(mb) ==
    check_if_simulated_instance_norm_is_used_impl(mb)


(***************************************************************************)
(* The graph: nodes in definition order, values by name, graph inputs and  *)
(* outputs, functions.  A value name is a pair <<chain index, local name>>.*)
(***************************************************************************)
\* an operator invocation; attrs is a set of <<name, literal>> pairs
Node(domain, op_type, inputs, outputs, attrs) ==
    [domain |-> domain, op_type |-> op_type, inputs |-> inputs,
     outputs |-> outputs, attrs |-> attrs]

EmptyGraph ==
    [nodes |-> <<>>, values |-> <<>>, inputs |-> <<>>, outputs |-> <<>>,
     functions |-> {}, fresh |-> 0]

\* the index of the node that produces value v, 0 when v has no producer
Producer(g, v) ==
    IF \E i \in 1..Len(g.nodes) : g.nodes[i].outputs[1] = v
    THEN CHOOSE i \in 1..Len(g.nodes) : g.nodes[i].outputs[1] = v
    ELSE 0

\* the indices of the nodes that read value v
Consumers(g, v) ==
    {i \in 1..Len(g.nodes) : \E k \in 1..Len(g.nodes[i].inputs) : g.nodes[i].inputs[k] = v}

IsGraphOutput(g, v) == \E k \in 1..Len(g.outputs) : g.outputs[k] = v

\* the sequence s without the elements at the indices in drop
Without(s, drop) ==
    LET keep == {i \in 1..Len(s) : i \notin drop}
    IN  [j \in 1..Cardinality(keep) |->
            s[CHOOSE i \in keep : Cardinality({k \in keep : k <= i}) = j]]

(***************************************************************************)
(* Patterns: the trees the pattern functions build when they are recorded  *)
(***************************************************************************)
\* a placeholder: a parameter of the pattern function
PVar(name) == [kind |-> "var", name |-> name, op_type |-> "", args |-> <<>>, attrs |-> {}]

\* op.<op_type>(args..., attr=literal...)
POp(op_type, operands, attrs) ==
    [kind |-> "op", name |-> "", op_type |-> op_type, args |-> operands, attrs |-> attrs]

\* broadcast_to_matmul.py lines 127-136
two_reshapes_matmul_reshape_pattern ==
    POp("Reshape",
        <<POp("MatMul",
              <<POp("Reshape", <<PVar("input_a"), PVar("shape_a")>>, {}),
                POp("Reshape", <<PVar("input_b"), PVar("shape_b")>>, {})>>, {}),
          PVar("shape_c")>>, {})

\* broadcast_to_matmul.py lines 139-143
matmul_with_two_shape_inputs == POp("MatMul", <<PVar("input_a"), PVar("input_b")>>, {})

\* broadcast_to_matmul.py lines 146-149
one_reshape_matmul_reshape_pattern ==
    POp("Reshape",
        <<POp("MatMul",
              <<POp("Reshape", <<PVar("input_a"), PVar("shape_a")>>, {}),
                PVar("input_b")>>, {}),
          PVar("shape_c")>>, {})

\* broadcast_to_matmul.py lines 152-155
matmul_with_one_shape_input == POp("MatMul", <<PVar("input_a"), PVar("input_b")>>, {})

\* gemm_to_matmul_add.py lines 8-13; the literals 1.0 are written 1
reshape_gemm_reshape_pattern ==
    POp("Reshape",
        <<POp("Gemm",
              <<POp("Reshape", <<PVar("input_a"), PVar("shape_a")>>, {}),
                PVar("input_b"), PVar("input_c")>>,
              {<<"alpha", 1>>, <<"beta", 1>>}),
          PVar("shape_c")>>, {})

\* the replacement of lines 16-18 returning the MatMul, input_c left out
matmul_without_add ==
    POp("MatMul", <<PVar("input_a"), PVar("input_b")>>, {})

\* gemm_to_matmul_add.py lines 16-18
matmul_add ==
    POp("Add", <<POp("MatMul", <<PVar("input_a"), PVar("input_b")>>, {}),
                 PVar("input_c")>>, {})

\* pattern.RewriteRule(target_pattern, replacement_pattern, condition_function):
\* the patterns with the parameter lists of their functions
RewriteRule(name, pattern, params, replacement, replParams, condition) ==
    [name |-> name, pattern |-> pattern, params |-> params,
     replacement |-> replacement, replParams |-> replParams, condition |-> condition]

\* broadcast_to_matmul.py lines 159-163
two_reshapes_matmul_reshape_rule ==
    RewriteRule("two_reshapes_matmul_reshape_rule",
                two_reshapes_matmul_reshape_pattern,
                <<"input_a", "input_b", "shape_a", "shape_b", "shape_c">>,
                matmul_with_two_shape_inputs,
                <<"input_a", "input_b", "shape_a", "shape_b", "shape_c">>,
                "check_if_need_reshape")

\* broadcast_to_matmul.py lines 164-170
one_reshape_matmul_reshape_rule ==
    RewriteRule("one_reshape_matmul_reshape_rule",
                one_reshape_matmul_reshape_pattern,
                <<"input_a", "input_b", "shape_a", "shape_c">>,
                matmul_with_one_shape_input,
                <<"input_a", "input_b", "shape_a", "shape_c">>,
                "check_if_need_reshape")

\* the rule set of lines 173-175 with the one-reshape rule registered first
one_reshape_rule_first ==
    <<one_reshape_matmul_reshape_rule, two_reshapes_matmul_reshape_rule>>

\* broadcast_to_matmul.py lines 173-175: rules.rules
broadcast_to_matmul_rules ==
    <<two_reshapes_matmul_reshape_rule, one_reshape_matmul_reshape_rule>>

\* the Gemm rule with a replacement function that takes the three operands only
gemm_rule_replacement_without_shapes ==
    [name |-> "gemm_to_matmul_add_rule",
     pattern |-> reshape_gemm_reshape_pattern,
     params |-> <<"input_a", "input_b", "input_c", "shape_a", "shape_c">>,
     replacement |-> matmul_add,
     replParams |-> <<"input_a", "input_b", "input_c">>,
     condition |-> "check_if_need_reshape"]

\* gemm_to_matmul_add.py line 21
gemm_to_matmul_add_rule ==
    RewriteRule("gemm_to_matmul_add_rule",
                reshape_gemm_reshape_pattern,
                <<"input_a", "input_b", "input_c", "shape_a", "shape_c">>,
                matmul_add,
                <<"input_a", "input_b", "input_c", "shape_a", "shape_d">>,
                "check_if_need_reshape")

\* instance_to_group_normalization.py lines 90-107
instance_simulates_group_normalization_pattern ==
    POp("Add",
        <<POp("Mul",
              <<POp("Reshape",
                    <<POp("InstanceNormalization",
                          <<POp("Reshape", <<PVar("input_x"),
                                             PVar("adjusted_input_shape")>>, {}),
                            PVar("weight_for_norm"), PVar("bias_for_norm")>>,
                          {<<"epsilon", "epsilon">>}),
                      PVar("original_input_shape")>>, {}),
                PVar("weight_full")>>, {}),
          PVar("bias_full")>>, {})

\* instance_to_group_normalization.py lines 144-148: the replacement function
\* group_normalization is registered with delay_run=True and runs on the bindings
instance_norm_to_group_norm_rule ==
    RewriteRule("instance_norm_to_group_norm_rule",
                instance_simulates_group_normalization_pattern,
                <<"input_x", "adjusted_input_shape", "original_input_shape",
                  "weight_for_norm", "bias_for_norm", "weight_full", "bias_full",
                  "epsilon", "match_bindings">>,
                "group_normalization",
                <<"input_x", "adjusted_input_shape", "original_input_shape",
                  "weight_for_norm", "bias_for_norm", "weight_full", "bias_full",
                  "epsilon", "match_bindings">>,
                "check_if_simulated_instance_norm_is_used")

\* no_op.rules.rules: rules on arithmetic identities, whose patterns end in an
\* operator no modelled graph holds
no_op_rules ==
    <<RewriteRule("no_op_rule", POp("Mul", <<PVar("x"), PVar("one")>>, {}),
                  <<"x", "one">>, POp("Identity", <<PVar("x")>>, {}),
                  <<"x", "one">>, "none")>>

\* cast_constant_of_shape.rules.rules
cast_constant_of_shape_rules ==
    <<RewriteRule("cast_constant_of_shape_rule",
                  POp("Cast", <<POp("ConstantOfShape", <<PVar("shape")>>, {})>>, {}),
                  <<"shape">>, POp("ConstantOfShape", <<PVar("shape")>>, {}),
                  <<"shape">>, "none")>>

\* optimizer/__init__.py lines 81-86: the list handed to rewriter.rewrite
pattern_rewrite_rules ==
    no_op_rules \o broadcast_to_matmul_rules \o <<gemm_to_matmul_add_rule>>
        \o cast_constant_of_shape_rules

(***************************************************************************)
(* Matcher: unify a pattern with the subgraph that ends in an anchor node  *)
(***************************************************************************)
\* a binding is a set of <<placeholder name, value name>> pairs
Bound(bind, name) == \E p \in bind : p[1] = name

Lookup(bind, name) == (CHOOSE p \in bind : p[1] = name)[2]

NoMatch == [ok |-> FALSE, bind |-> {}, nodes |-> {}]

\* grow the match from value v towards its inputs
RECURSIVE MatchValue(_, _, _, _)
RECURSIVE MatchArgs(_, _, _, _, _)
MatchValue(g, pat, v, m) ==
    IF ~m.ok THEN m
    ELSE IF pat.kind = "var"
    THEN IF Bound(m.bind, pat.name)
         THEN (IF Lookup(m.bind, pat.name) = v THEN m ELSE NoMatch)
         ELSE [m EXCEPT !.bind = @ \cup {<<pat.name, v>>}]
    ELSE LET i == Producer(g, v)
         IN  IF i = 0 THEN NoMatch
             ELSE IF \/ g.nodes[i].domain # ""
                     \/ g.nodes[i].op_type # pat.op_type
                     \/ ~(pat.attrs \subseteq g.nodes[i].attrs)
                     \/ Len(g.nodes[i].inputs) # Len(pat.args)
             THEN NoMatch
             ELSE MatchArgs(g, pat.args, g.nodes[i].inputs, 1,
                            [m EXCEPT !.nodes = @ \cup {i}])

MatchArgs(g, pats, vs, k, m) ==
    IF k > Len(pats) \/ ~m.ok THEN m
    ELSE Bind(MatchValue(g, pats[k], vs[k], m),
              LAMBDA m1 : MatchArgs(g, pats, vs, k + 1, m1))

\* no value computed inside the matched region is read outside it
Exclusive(g, m, anchor) ==
    \A i \in m.nodes \ {anchor} :
        /\ Consumers(g, g.nodes[i].outputs[1]) \subseteq m.nodes
        /\ ~IsGraphOutput(g, g.nodes[i].outputs[1])

\* the match of a rule's pattern at the node with index anchor
Match(g, rule, anchor) ==
    Bind(MatchValue(g, rule.pattern, g.nodes[anchor].outputs[1],
                    [ok |-> TRUE, bind |-> {}, nodes |-> {}]),
         LAMBDA m : IF m.ok /\ Exclusive(g, m, anchor) THEN m ELSE NoMatch)

(***************************************************************************)
(* Guard evaluation: the rule's condition function on the bound values     *)
(***************************************************************************)
\* the match_bindings the reshape guard reads
ReshapeGuardBindings(g, bind) ==
    [input_a |-> g.values[Lookup(bind, "input_a")],
     input_b |-> g.values[Lookup(bind, "input_b")],
     shape_c |-> g.values[Lookup(bind, "shape_c")]]

\* the result of the condition function, and the values as the call leaves them
EvalCondition(g, rule, bind) ==
    IF rule.condition = "check_if_need_reshape"
    THEN Bind(check_if_need_reshape(ReshapeGuardBindings(g, bind)),
              LAMBDA r :
                [ret |-> r.ret,
                 values |-> [v \in DOMAIN g.values |->
                               IF v = Lookup(bind, "input_a") THEN r.bindings.input_a
                               ELSE IF v = Lookup(bind, "input_b") THEN r.bindings.input_b
                               ELSE IF v = Lookup(bind, "shape_c") THEN r.bindings.shape_c
                               ELSE g.values[v]]])
    ELSE [ret |-> "True", values |-> g.values]

(***************************************************************************)
(* ReplacementBuilder and splice                                           *)
(***************************************************************************)
\* the replacement function's parameters take the pattern's placeholders by position
Substitution(rule, bind) ==
    {<<rule.replParams[k], Lookup(bind, rule.params[k])>> : k \in 1..Len(rule.replParams)}

\* run the replacement template: st holds the nodes made so far, the counter of
\* made values, the operands of the node under construction and the last result
RECURSIVE BuildValue(_, _, _)
RECURSIVE BuildArgs(_, _, _, _)
BuildValue(pat, subst, st) ==
    IF pat.kind = "var"
    THEN [st EXCEPT !.v = Lookup(subst, pat.name)]
    ELSE Bind(BuildArgs(pat.args, 1, subst, [st EXCEPT !.operands = <<>>]),
              LAMBDA a :
                [nodes |-> Append(a.nodes,
                                  Node("", pat.op_type, a.operands,
                                       <<<<a.fresh + 1, "new">>>>, pat.attrs)),
                 fresh |-> a.fresh + 1,
                 operands |-> st.operands,
                 v |-> <<a.fresh + 1, "new">>])

BuildArgs(pats, k, subst, st) ==
    IF k > Len(pats) THEN st
    ELSE Bind(BuildValue(pats[k], subst, st),
              LAMBDA b : BuildArgs(pats, k + 1, subst,
                                   [b EXCEPT !.operands = Append(st.operands, b.v)]))

\* every use of value old becomes a use of value new
ReplaceAllUsesWith(g, old, new) ==
    [g EXCEPT
        !.nodes = [i \in 1..Len(g.nodes) |->
                     [g.nodes[i] EXCEPT
                        !.inputs = [k \in 1..Len(g.nodes[i].inputs) |->
                                      IF g.nodes[i].inputs[k] = old THEN new
                                      ELSE g.nodes[i].inputs[k]]]],
        !.outputs = [k \in 1..Len(g.outputs) |->
                       IF g.outputs[k] = old THEN new ELSE g.outputs[k]]]

\* splice the replacement in: its nodes go before the anchor, the consumers
\* of the matched output read the replacement's output; the matched nodes stay,
\* unused, for dead-node elimination
SpliceBuilt(g, b, anchor) ==
    Bind(ReplaceAllUsesWith(g, g.nodes[anchor].outputs[1], b.v),
         LAMBDA g1 :
            [g1 EXCEPT
                !.nodes = SubSeq(g1.nodes, 1, anchor - 1) \o b.nodes
                              \o SubSeq(g1.nodes, anchor, Len(g1.nodes)),
                !.values = [v \in DOMAIN g.values
                                     \cup {b.nodes[k].outputs[1] : k \in 1..Len(b.nodes)} |->
                              IF v \in DOMAIN g.values THEN g.values[v]
                              ELSE Value(NoShape, NoArray)],
                !.fresh = b.fresh])

Splice(g, rule, bind, anchor) ==
    Bind(BuildValue(rule.replacement, Substitution(rule, bind),
                    [nodes |-> <<>>, fresh |-> g.fresh, operands |-> <<>>,
                     v |-> <<0, "">>]),
         LAMBDA b : SpliceBuilt(g, b, anchor))

(***************************************************************************)
(* One anchor of a RuleSet sweep: the rules in list order, the first whose *)
(* matcher and guard both succeed is applied                               *)
(***************************************************************************)
Outcome(status, rule, exc, g) == [status |-> status, rule |-> rule, exc |-> exc, g |-> g]

\* the names of the rules of the list whose matcher and guard both succeed at the anchor
AcceptingRules(g, rules, anchor) ==
    {rules[r].name : r \in
        {r \in 1..Len(rules) :
            /\ Match(g, rules[r], anchor).ok
            /\ EvalCondition(g, rules[r], Match(g, rules[r], anchor).bind).ret = "True"}}

RECURSIVE TryRules(_, _, _, _)
\* the rule matched with binding bind, and its guard answered c
AfterGuard(g, rules, r, anchor, bind, c) ==
    Bind([g EXCEPT !.values = c.values],
         LAMBDA g1 :
            IF c.ret = "True"
            THEN IF Len(rules[r].replParams) # Len(rules[r].params)
                 THEN Outcome("raised", rules[r].name, "ValueError", g1)
                 ELSE Outcome("applied", rules[r].name, "",
                              Splice(g1, rules[r], bind, anchor))
            ELSE IF c.ret = "False"
            THEN TryRules(g1, rules, r + 1, anchor)
            ELSE Outcome("raised", rules[r].name, c.ret, g1))

TryRules(g, rules, r, anchor) ==
    IF r > Len(rules) THEN Outcome("none", "", "", g)
    ELSE Bind(Match(g, rules[r], anchor),
              LAMBDA m :
                IF ~m.ok THEN TryRules(g, rules, r + 1, anchor)
                ELSE Bind(EvalCondition(g, rules[r], m.bind),
                          LAMBDA c : AfterGuard(g, rules, r, anchor, m.bind, c)))

(***************************************************************************)
(* The passes optimize() calls                                             *)
(***************************************************************************)
\* numpy broadcasting of two lists of batch dimensions, aligned at the right
PadLeft(x, n) == [i \in 1..n |-> IF i <= n - Len(x) THEN 1 ELSE x[i - (n - Len(x))]]

BroadcastShapes(x, y) ==
    LET n == Max(Len(x), Len(y))
        px == PadLeft(x, n)
        py == PadLeft(y, n)
    IN  [ok |-> \A i \in 1..n : px[i] = py[i] \/ px[i] = 1 \/ py[i] = 1,
         dims |-> [i \in 1..n |-> Max(px[i], py[i])]]

\* the shape of MatMul(a, b) under MatMul's broadcasting rules: a 1-D operand is
\* promoted to a matrix and its added dimension dropped from the result
MatMulShape(a, b) ==
    IF Len(a) = 0 \/ Len(b) = 0 THEN [ok |-> FALSE, dims |-> <<>>]
    ELSE LET a2 == IF Len(a) = 1 THEN <<1>> \o a ELSE a
             b2 == IF Len(b) = 1 THEN b \o <<1>> ELSE b
             batch == BroadcastShapes(SliceTo(a2, -2), SliceTo(b2, -2))
         IN  [ok |-> NegIndex(a2, 1) = NegIndex(b2, 2) /\ batch.ok,
              dims |-> batch.dims
                         \o (IF Len(a) = 1 THEN <<>> ELSE <<NegIndex(a2, 2)>>)
                         \o (IF Len(b) = 1 THEN <<>> ELSE <<NegIndex(b2, 1)>>)]

\* the shape shape inference gives the output of node n, NoShape when it cannot tell
InferNode(g, n) ==
    LET in1 == g.values[n.inputs[1]]
    IN  IF n.domain # "" THEN NoShape
        ELSE IF n.op_type = "Reshape"
        THEN LET c == g.values[n.inputs[2]].value_as_np_array
             IN  IF c.tag = "ndarray" /\ c.ndim = 1 /\ \A k \in 1..Len(c.data) : c.data[k] > 0
                 THEN Shape(c.data) ELSE NoShape
        ELSE IF n.op_type \in {"MatMul", "Gemm"}
        THEN LET in2 == g.values[n.inputs[2]]
             IN  IF in1.shape.tag = "list" /\ in2.shape.tag = "list"
                    /\ MatMulShape(in1.shape.dims, in2.shape.dims).ok
                 THEN Shape(MatMulShape(in1.shape.dims, in2.shape.dims).dims)
                 ELSE NoShape
        ELSE IF n.op_type = "Add"
        THEN LET in2 == g.values[n.inputs[2]]
             IN  IF in1.shape.tag = "list" /\ in2.shape.tag = "list"
                    /\ BroadcastShapes(in1.shape.dims, in2.shape.dims).ok
                 THEN Shape(BroadcastShapes(in1.shape.dims, in2.shape.dims).dims)
                 ELSE NoShape
        ELSE IF n.op_type \in {"Identity", "Relu"} THEN in1.shape
        ELSE NoShape

\* onnx.shape_inference.infer_shapes: a new model with the shapes of the node
\* outputs filled in, node by node in definition order
RECURSIVE InferFrom(_, _)
InferFrom(g, i) ==
    IF i > Len(g.nodes) THEN g
    ELSE Bind(InferNode(g, g.nodes[i]),
              LAMBDA s :
                Bind(IF s.tag = "None" THEN g
                     ELSE [g EXCEPT !.values[g.nodes[i].outputs[1]].shape = s],
                     LAMBDA g1 : InferFrom(g1, i + 1)))

infer_shapes(g) == InferFrom(g, 1)

\* a function is simple when its body is a single node
IsSimple(f) == f.simple

FunctionOf(g, n) == CHOOSE f \in g.functions : f.name = n.op_type

IsCall(g, n) == n.domain = "local" /\ \E f \in g.functions : f.name = n.op_type

\* inline_simple_functions: each call of a simple function becomes the node of its body
inline_simple_functions(g) ==
    [g EXCEPT !.nodes =
        [i \in 1..Len(g.nodes) |->
            IF IsCall(g, g.nodes[i]) /\ IsSimple(FunctionOf(g, g.nodes[i]))
            THEN Node("", FunctionOf(g, g.nodes[i]).body_op, g.nodes[i].inputs,
                      g.nodes[i].outputs, {})
            ELSE g.nodes[i]]]

\* a node the constant folder evaluates: all its inputs are known constants
IsFoldable(g, n) ==
    /\ n.domain = ""
    /\ n.op_type = "Identity"
    /\ \A k \in 1..Len(n.inputs) : g.values[n.inputs[k]].value_as_np_array.tag = "ndarray"

\* fold_constants: the output of each foldable node becomes a constant and the
\* node goes; the result tells whether anything was folded
fold_constants(g) ==
    LET folded == {i \in 1..Len(g.nodes) : IsFoldable(g, g.nodes[i])}
    IN  [modified |-> folded # {},
         g |-> [g EXCEPT
                  !.nodes = Without(g.nodes, folded),
                  !.values = [v \in DOMAIN g.values |->
                                IF \E i \in folded : g.nodes[i].outputs[1] = v
                                THEN g.values[g.nodes[Producer(g, v)].inputs[1]]
                                ELSE g.values[v]]]]

\* remove_unused_nodes: from the last node to the first, a node whose output
\* nothing reads and the graph does not return is removed
RECURSIVE RemoveUnusedFrom(_, _)
RemoveUnusedFrom(g, i) ==
    IF i = 0 THEN g
    ELSE IF Consumers(g, g.nodes[i].outputs[1]) = {}
            /\ ~IsGraphOutput(g, g.nodes[i].outputs[1])
    THEN Bind([g EXCEPT !.nodes = Without(g.nodes, {i})],
              LAMBDA g1 : RemoveUnusedFrom(g1, i - 1))
    ELSE RemoveUnusedFrom(g, i - 1)

remove_unused_nodes(g) == RemoveUnusedFrom(g, Len(g.nodes))

\* remove_unused_functions: a function no node calls is removed
remove_unused_functions(g) ==
    [g EXCEPT !.functions =
        {f \in g.functions :
            \E i \in 1..Len(g.nodes) :
                g.nodes[i].domain = "local" /\ g.nodes[i].op_type = f.name}]

\* inline_functions_with_unused_outputs: inlines the calls that leave a declared
\* output of the function unread; every modelled call reads its single output
inline_functions_with_unused_outputs(g) ==
    [g EXCEPT !.nodes =
        [i \in 1..Len(g.nodes) |->
            IF IsCall(g, g.nodes[i]) /\ Len(g.nodes[i].outputs) < 1
            THEN Node("", FunctionOf(g, g.nodes[i]).body_op, g.nodes[i].inputs,
                      g.nodes[i].outputs, {})
            ELSE g.nodes[i]]]

(***************************************************************************)
(* The graphs the model starts from: chains of the shapes the rules match  *)
(***************************************************************************)
\* a function from a set of <<key, value>> pairs
ToFunction(pairs) ==
    [k \in {p[1] : p \in pairs} |-> (CHOOSE p \in pairs : p[1] = k)[2]]

Merge(f1, f2) ==
    [k \in DOMAIN f1 \cup DOMAIN f2 |-> IF k \in DOMAIN f1 THEN f1[k] ELSE f2[k]]

\* chain i of a graph.  p.pat: "one" Reshape -> MatMul -> Reshape, "two" with the
\* second operand reshaped too, "gemm" Reshape -> Gemm -> Reshape, "call" a call of
\* a simple function.  p.csrc: shape_c is an initializer ("init"), the output of a
\* foldable node of constants ("fold") or of a node of a graph input ("dyn")
ChainValues(i, p) ==
    IF p.pat = "call"
    THEN {<<<<i, "x">>, Value(p.a, NoArray)>>, <<<<i, "out">>, Value(NoShape, NoArray)>>}
    ELSE {<<<<i, "input_a">>, Value(p.a, NoArray)>>,
          <<<<i, "input_b">>, Value(p.b, NoArray)>>,
          <<<<i, "shape_a">>, Value(Shape(<<Len(p.sa)>>), Array1D(p.sa))>>,
          <<<<i, "reshape_a">>, Value(NoShape, NoArray)>>,
          <<<<i, "mm">>, Value(NoShape, NoArray)>>,
          <<<<i, "out">>, Value(NoShape, NoArray)>>,
          <<<<i, "shape_c">>,
            IF p.csrc = "init" THEN Value(NoShape, p.c) ELSE Value(NoShape, NoArray)>>}
         \cup (IF p.csrc = "fold" THEN {<<<<i, "shape_src">>, Value(NoShape, p.c)>>}
               ELSE IF p.csrc = "dyn" THEN {<<<<i, "shape_src">>, Value(NoShape, NoArray)>>}
               ELSE {})
         \cup (IF p.pat = "two"
               THEN {<<<<i, "shape_b">>, Value(Shape(<<Len(p.sb)>>), Array1D(p.sb))>>,
                     <<<<i, "reshape_b">>, Value(NoShape, NoArray)>>}
               ELSE {})
         \cup (IF p.pat = "gemm"
               THEN {<<<<i, "input_c">>, Value(p.bias, NoArray)>>}
               ELSE {})

ChainNodes(i, p) ==
    IF p.pat = "call"
    THEN <<Node("local", "f", <<<<i, "x">>>>, <<<<i, "out">>>>, {})>>
    ELSE (IF p.csrc = "init" THEN <<>>
          ELSE <<Node("", "Identity", <<<<i, "shape_src">>>>, <<<<i, "shape_c">>>>, {})>>)
         \o <<Node("", "Reshape", <<<<i, "input_a">>, <<i, "shape_a">>>>,
                   <<<<i, "reshape_a">>>>, {})>>
         \o (IF p.pat = "two"
             THEN <<Node("", "Reshape", <<<<i, "input_b">>, <<i, "shape_b">>>>,
                         <<<<i, "reshape_b">>>>, {})>>
             ELSE <<>>)
         \o <<IF p.pat = "gemm"
              THEN Node("", "Gemm",
                        <<<<i, "reshape_a">>, <<i, "input_b">>, <<i, "input_c">>>>,
                        <<<<i, "mm">>>>, {<<"alpha", p.alpha>>, <<"beta", p.beta>>})
              ELSE Node("", "MatMul",
                        <<<<i, "reshape_a">>,
                          IF p.pat = "two" THEN <<i, "reshape_b">> ELSE <<i, "input_b">>>>,
                        <<<<i, "mm">>>>, {})>>
         \o <<Node("", "Reshape", <<<<i, "mm">>, <<i, "shape_c">>>>, <<<<i, "out">>>>, {})>>

ChainInputs(i, p) ==
    IF p.pat = "call" THEN <<<<i, "x">>>>
    ELSE <<<<i, "input_a">>, <<i, "input_b">>>>
         \o (IF p.pat = "gemm" THEN <<<<i, "input_c">>>> ELSE <<>>)
         \o (IF p.csrc = "dyn" THEN <<<<i, "shape_src">>>> ELSE <<>>)

\* the simple function the "call" chain calls: its body is one Relu node
SimpleFunction == [name |-> "f", simple |-> TRUE, body_op |-> "Relu"]

\* graph g with chain p added as its chain i
AddChain(g, i, p) ==
    [nodes |-> g.nodes \o ChainNodes(i, p),
     values |-> Merge(g.values, ToFunction(ChainValues(i, p))),
     inputs |-> g.inputs \o ChainInputs(i, p),
     outputs |-> Append(g.outputs, <<i, "out">>),
     functions |-> IF p.pat = "call" THEN g.functions \cup {SimpleFunction}
                   ELSE g.functions,
     fresh |-> g.fresh]

RECURSIVE GraphOf(_)
GraphOf(chains) ==
    IF chains = <<>> THEN EmptyGraph
    ELSE Bind(GraphOf(SubSeq(chains, 1, Len(chains) - 1)),
              LAMBDA g : AddChain(g, Len(chains), chains[Len(chains)]))

ScenarioA ==
    [pat |-> "one", a |-> Shape(<<2, 3, 4>>), b |-> Shape(<<4, 5>>), sa |-> <<6, 4>>,
     sb |-> <<>>, c |-> Array1D(<<2, 3, 5>>), csrc |-> "init", alpha |-> 1,
     beta |-> 1, bias |-> NoShape]

\* the chains of the graphs optimize() is run on
ChainKinds ==
    {ScenarioA,
     [ScenarioA EXCEPT !.pat = "two", !.sb = <<4, 5>>],
     [ScenarioA EXCEPT !.csrc = "fold"],
     [ScenarioA EXCEPT !.csrc = "dyn"],
     [ScenarioA EXCEPT !.a = Shape(<<4>>), !.b = Shape(<<4>>), !.sa = <<1, 4>>,
                       !.c = Array1D(<<1>>)],
     [ScenarioA EXCEPT !.pat = "gemm", !.bias = Shape(<<5>>)],
     [ScenarioA EXCEPT !.pat = "call"]}

NoSweep == [snapshot |-> <<>>, k |-> 0, consumed |-> {}]

\* what the run has done so far: the passes of the iteration under way, whether one
\* of them changed the model, the rules applied, how the loop ended, the model the
\* caller gave, the model when the pass under way began, the exception raised
NoHist == [passes |-> <<>>, changed |-> FALSE, applied |-> <<>>, exit |-> "none",
           given |-> EmptyGraph, passStart |-> EmptyGraph, exc |-> ""]

(***************************************************************************)
(* SpecGuard: the guards called on bindings drawn from bounded sets, and   *)
(* the rule list tried at the last node of the chain the bindings describe *)
(***************************************************************************)
\* number of times a guard is called on the same bindings
MaxCalls == 2

\* all sequences over S of length at most n
SeqsUpTo(S, n) == UNION {[1..k -> S] : k \in 0..n}

\* the shapes of Scenario A and their neighbours
ScenarioShapes ==
    {<<2, 3, 4>>, <<4, 5>>, <<2, 3, 5>>, <<6, 5>>, <<3, 4>>, <<1, 3, 4>>, <<4>>, <<5>>}

Shapes == SeqsUpTo(Dims, MaxRank) \cup ScenarioShapes

ShapeOpts == {NoShape} \cup {Shape(d) : d \in Shapes}

\* what value_as_np_array of shape_c may be
ShapeCArrays ==
    {NoArray, NotAnArray, NdArray(0, <<2>>), NdArray(2, <<1, 2>>)}
        \cup {Array1D(d) : d \in Shapes}

ReshapeBindings ==
    {[input_a |-> Value(sa, NoArray),
      input_b |-> Value(sb, NoArray),
      shape_c |-> Value(NoShape, c)] : sa \in ShapeOpts, sb \in ShapeOpts, c \in ShapeCArrays}

InstNormBindings ==
    {[input_x |-> Value(x, NoArray),
      adjusted_input_shape |-> Value(NoShape, adj),
      original_input_shape |-> Value(NoShape, orig),
      weight_for_norm |-> Value(ws, wc),
      bias_for_norm |-> Value(NoShape, bc),
      weight_full |-> Value(wf, NoArray),
      bias_full |-> Value(bf, NoArray)] :
        x \in {NoShape, Shape(<<1, 4, 2, 2>>), Shape(<<4, 2, 2>>)},
        adj \in {NoArray, Array1D(<<0, 2, -1>>), Array1D(<<0, 4, -1>>), NdArray(2, <<0, 2, -1>>)},
        orig \in {NoArray, Array1D(<<1, 4, 2, 2>>), Array1D(<<2, 4, 2, 2>>)},
        ws \in {NoShape, Shape(<<>>), Shape(<<2>>), Shape(<<4>>)},
        wc \in {NoArray, Array1D(<<1, 1>>), Array1D(<<1, 2>>)},
        bc \in {NoArray, Array1D(<<0, 0>>), Array1D(<<0, 1>>)},
        wf \in {NoShape, Shape(<<4, 1, 1>>), Shape(<<4, 2, 1>>)},
        bf \in {NoShape, Shape(<<4, 1, 1>>), Shape(<<4, 1>>)}}

\* the chain Reshape(input_a, shape_a) -> MatMul(_, input_b) -> Reshape(_, shape_c)
\* whose values are the bound ones
ChainOfBindings(mb) ==
    GraphOf(<<[ScenarioA EXCEPT !.a = mb.input_a.shape, !.b = mb.input_b.shape,
                                !.c = mb.shape_c.value_as_np_array]>>)

\* what the Gemm rule binds, for Gemm nodes with alpha and beta 1 or 2
GemmBindings ==
    {[input_a |-> Value(Shape(sa), NoArray),
      input_b |-> Value(Shape(<<4, 5>>), NoArray),
      input_c |-> Value(Shape(sc), NoArray),
      shape_c |-> Value(NoShape, Array1D(c))] :
        sa \in {<<2, 3, 4>>, <<3, 4>>},
        sc \in {<<5>>, <<1, 5>>, <<6, 5>>},
        c \in {<<2, 3, 5>>, <<3, 5>>, <<6, 5>>}}

\* the chain Reshape(input_a, shape_a) -> Gemm(_, input_b, input_c) -> Reshape(_, shape_c)
\* whose values are the bound ones
GemmChainOfBindings(mb, alpha, beta) ==
    GraphOf(<<[ScenarioA EXCEPT !.pat = "gemm", !.a = mb.input_a.shape,
                                !.b = mb.input_b.shape, !.bias = mb.input_c.shape,
                                !.c = mb.shape_c.value_as_np_array,
                                !.alpha = alpha, !.beta = beta]>>)

(***************************************************************************)
(* group_normalization: the deferred replacement of the instance-norm rule *)
(* (rewriter/onnxruntime/instance_to_group_normalization.py)               *)
(***************************************************************************)
\* a value of the replacement: a bound placeholder or the output of a recorded op
Repl(name) == <<0, name>>

\* the ops of lines 122-140 with both Transposes using perm [0, 2, 3, 1]
GroupNormOpsSamePermTwice(groups) ==
    <<Node("", "Transpose", <<Repl("input_x")>>, <<Repl("nhwc_input")>>,
           {<<"perm", <<0, 2, 3, 1>>>>}),
      Node("", "Cast", <<Repl("weight_full")>>, <<Repl("weight_full_cast")>>, {<<"to", 1>>}),
      Node("", "Constant", <<>>, <<Repl("reshape_to_1d")>>, {<<"value_ints", <<-1>>>>}),
      Node("", "Reshape", <<Repl("weight_full_cast"), Repl("reshape_to_1d")>>,
           <<Repl("weight_full_1d")>>, {}),
      Node("", "Cast", <<Repl("bias_full")>>, <<Repl("bias_full_cast")>>, {<<"to", 1>>}),
      Node("", "Reshape", <<Repl("bias_full_cast"), Repl("reshape_to_1d")>>,
           <<Repl("bias_full_1d")>>, {}),
      Node("com.microsoft", "GroupNorm",
           <<Repl("nhwc_input"), Repl("weight_full_1d"), Repl("bias_full_1d")>>,
           <<Repl("output")>>,
           {<<"activation", 0>>, <<"channels_last", 1>>, <<"epsilon", "epsilon">>,
            <<"groups", groups>>}),
      Node("", "Transpose", <<Repl("output")>>, <<Repl("result")>>,
           {<<"perm", <<0, 2, 3, 1>>>>})>>

\* lines 122-140: the ops the replacement records, in order; onnx.TensorProto.FLOAT is 1
GroupNormOps(groups) ==
    <<Node("", "Transpose", <<Repl("input_x")>>, <<Repl("nhwc_input")>>,
           {<<"perm", <<0, 2, 3, 1>>>>}),
      Node("", "Cast", <<Repl("weight_full")>>, <<Repl("weight_full_cast")>>, {<<"to", 1>>}),
      Node("", "Constant", <<>>, <<Repl("reshape_to_1d")>>, {<<"value_ints", <<-1>>>>}),
      Node("", "Reshape", <<Repl("weight_full_cast"), Repl("reshape_to_1d")>>,
           <<Repl("weight_full_1d")>>, {}),
      Node("", "Cast", <<Repl("bias_full")>>, <<Repl("bias_full_cast")>>, {<<"to", 1>>}),
      Node("", "Reshape", <<Repl("bias_full_cast"), Repl("reshape_to_1d")>>,
           <<Repl("bias_full_1d")>>, {}),
      Node("com.microsoft", "GroupNorm",
           <<Repl("nhwc_input"), Repl("weight_full_1d"), Repl("bias_full_1d")>>,
           <<Repl("output")>>,
           {<<"activation", 0>>, <<"channels_last", 1>>, <<"epsilon", "epsilon">>,
            <<"groups", groups>>}),
      Node("", "Transpose", <<Repl("output")>>, <<Repl("result")>>,
           {<<"perm", <<0, 3, 1, 2>>>>})>>

\* a replacement that takes groups from the channel dimension of input_x
group_normalization_groups_from_channels(match_bindings) ==
    IF match_bindings.input_x.shape.tag = "None" THEN [exc |-> "TypeError", nodes |-> <<>>]
    ELSE IF Len(match_bindings.input_x.shape.dims) < 2
    THEN [exc |-> "IndexError", nodes |-> <<>>]
    ELSE [exc |-> "", nodes |-> GroupNormOps(match_bindings.input_x.shape.dims[2])]

\* lines 110-140; line 130: groups = match_bindings["weight_for_norm"].shape[0]
group_normalization(match_bindings) ==
    IF match_bindings.weight_for_norm.shape.tag = "None"
    THEN [exc |-> "TypeError", nodes |-> <<>>]
    ELSE IF Len(match_bindings.weight_for_norm.shape.dims) = 0
    THEN [exc |-> "IndexError", nodes |-> <<>>]
    ELSE [exc |-> "", nodes |-> GroupNormOps(match_bindings.weight_for_norm.shape.dims[1])]

\* optimize() is not running
OptIdle ==
    /\ args = [num_iterations |-> 0, stop_if_no_change |-> FALSE,
               onnx_shape_inference |-> FALSE, too_large |-> FALSE]
    /\ iter = 0
    /\ modified = FALSE
    /\ callerModel = EmptyGraph
    /\ aliased = FALSE
    /\ sweep = NoSweep
    /\ hist = NoHist

\* no serde round in progress
\* no method of an attention rewrite rule is called
AttnIdle ==
    /\ sourceFunction = <<>>
    /\ method = ""
    /\ result = <<>>
    /\ apc = "idle"

SerdeIdle ==
    /\ message = <<>>
    /\ ir = <<>>
    /\ emitted = <<>>
    /\ reread = <<>>
    /\ spc = "idle"

InitGuard ==
    /\ AttnIdle
    /\ SerdeIdle
    /\ \/ /\ gkind = "reshape"
          /\ bindings \in ReshapeBindings
          /\ model = ChainOfBindings(bindings)
          /\ pc = "anchor"
       \/ /\ gkind = "gemm"
          /\ bindings \in GemmBindings
          /\ \E alpha \in {1, 2}, beta \in {1, 2} :
                model = GemmChainOfBindings(bindings, alpha, beta)
          /\ pc = "anchor"
       \/ /\ gkind = "instnorm"
          /\ bindings \in InstNormBindings
          /\ model = EmptyGraph
          /\ pc = "idle"
    /\ bindings0 = bindings
    /\ ret = "none"
    /\ prevRet = "none"
    /\ calls = 0
    /\ OptIdle

\* the rewriter calls the condition function of a rule on the match bindings
CallReshapeGuard ==
    /\ gkind = "reshape"
    /\ pc = "anchor"
    /\ calls < MaxCalls
    /\ \E r \in {check_if_need_reshape(bindings)} :
           /\ bindings' = r.bindings
           /\ ret' = r.ret
    /\ prevRet' = ret
    /\ calls' = calls + 1
    /\ UNCHANGED <<gkind, bindings0, optVars, serdeVars, attnVars>>

CallInstNormGuard ==
    /\ gkind = "instnorm"
    /\ calls < MaxCalls
    /\ \E r \in {check_if_simulated_instance_norm_is_used(bindings)} :
           /\ bindings' = r.bindings
           /\ ret' = r.ret
    /\ prevRet' = ret
    /\ calls' = calls + 1
    /\ UNCHANGED <<gkind, bindings0, optVars, serdeVars, attnVars>>

\* the sweep at the last node of the chain: the rules of the list in order
RulesAtAnchor ==
    /\ pc = "anchor"
    /\ calls = 0
    /\ \E o \in {TryRules(model, pattern_rewrite_rules, 1, Len(model.nodes))} :
           /\ model' = o.g
           /\ pc' = IF o.status = "raised" THEN "raised" ELSE "swept"
           /\ hist' = [hist EXCEPT
                         !.changed = o.g # model,
                         !.exc = o.exc,
                         !.applied =
                            IF o.status = "applied"
                            THEN <<[rule |-> o.rule,
                                    anchor |-> model.nodes[Len(model.nodes)].outputs[1],
                                    accepting |-> AcceptingRules(model,
                                        pattern_rewrite_rules, Len(model.nodes))]>>
                            ELSE <<>>]
    /\ UNCHANGED <<guardVars, args, iter, modified, callerModel, aliased, sweep, serdeVars, attnVars>>

\* the rewriter runs the deferred replacement on the bindings of a match the
\* guard accepted
ReplaceInstNorm ==
    /\ gkind = "instnorm"
    /\ pc = "idle"
    /\ ret = "True"
    /\ \E r \in {group_normalization(bindings)} :
           /\ model' = [EmptyGraph EXCEPT !.nodes = r.nodes]
           /\ pc' = IF r.exc = "" THEN "replaced" ELSE "raised"
           /\ hist' = [hist EXCEPT !.exc = r.exc]
    /\ UNCHANGED <<guardVars, args, iter, modified, callerModel, aliased, sweep, serdeVars, attnVars>>

NextGuard == CallReshapeGuard \/ CallInstNormGuard \/ RulesAtAnchor \/ ReplaceInstNorm

SpecGuard == InitGuard /\ [][NextGuard]_vars


(***************************************************************************)
(* Spec: optimize() (optimizer/__init__.py lines 28-107)                   *)
(***************************************************************************)
\* largest num_iterations
MaxIterations == 2

\* largest number of chains of a graph
MaxChains == 2

GuardIdle ==
    /\ gkind = "idle"
    /\ bindings = <<>>
    /\ bindings0 = <<>>
    /\ ret = "none"
    /\ prevRet = "none"
    /\ calls = 0

Init ==
    /\ AttnIdle
    /\ GuardIdle
    /\ SerdeIdle
    /\ pc = "loop"
    /\ args \in {[num_iterations |-> n, stop_if_no_change |-> s,
                  onnx_shape_inference |-> i, too_large |-> l] :
                    n \in 0..MaxIterations, s \in BOOLEAN, i \in BOOLEAN, l \in BOOLEAN}
    /\ args.too_large => args.onnx_shape_inference
    /\ iter = 0
    /\ modified = FALSE
    /\ \E chains \in SeqsUpTo(ChainKinds, MaxChains) : model = GraphOf(chains)
    /\ callerModel = model
    /\ aliased = TRUE
    /\ sweep = NoSweep
    /\ hist = [NoHist EXCEPT !.given = model, !.passStart = model]

\* a pass that works on the object `model` refers to: the caller sees the
\* change while `model` still is the caller's object
InPlace(name, next, g) ==
    /\ model' = g
    /\ callerModel' = IF aliased THEN g ELSE callerModel
    /\ hist' = [hist EXCEPT !.passes = Append(@, name),
                            !.changed = @ \/ g # model,
                            !.passStart = g]
    /\ pc' = next
    /\ UNCHANGED <<args, iter, aliased, sweep, guardVars, serdeVars, attnVars>>

\* the loop of line 57 running one iteration more than range(num_iterations)
LoopHeadOffByOne ==
    /\ pc = "loop"
    /\ IF iter <= args.num_iterations
       THEN /\ pc' = "infer_shapes"
            /\ hist' = [hist EXCEPT !.passes = <<>>, !.changed = FALSE]
       ELSE /\ pc' = "return"
            /\ hist' = [hist EXCEPT !.exit = "bound"]
    /\ UNCHANGED <<args, iter, modified, model, callerModel, aliased, sweep, guardVars, serdeVars, attnVars>>

\* line 57: for _ in range(num_iterations)
LoopHead ==
    /\ pc = "loop"
    /\ IF iter < args.num_iterations
       THEN /\ pc' = "infer_shapes"
            /\ hist' = [hist EXCEPT !.passes = <<>>, !.changed = FALSE]
       ELSE /\ pc' = "return"
            /\ hist' = [hist EXCEPT !.exit = "bound"]
    /\ UNCHANGED <<args, iter, modified, model, callerModel, aliased, sweep, guardVars, serdeVars, attnVars>>

\* lines 58-67: model = onnx.shape_inference.infer_shapes(model, ...), a new model
InferShapes ==
    /\ pc = "infer_shapes"
    /\ IF args.onnx_shape_inference /\ ~args.too_large
       THEN /\ model' = infer_shapes(model)
            /\ aliased' = FALSE
            /\ hist' = [hist EXCEPT !.passes = Append(@, "infer_shapes"),
                                    !.changed = @ \/ model' # model,
                                    !.passStart = model']
       ELSE UNCHANGED <<model, aliased, hist>>
    /\ pc' = "inline_simple_functions"
    /\ UNCHANGED <<args, iter, modified, callerModel, sweep, guardVars, serdeVars, attnVars>>

\* line 69
InlineSimpleFunctions ==
    /\ pc = "inline_simple_functions"
    /\ InPlace("inline_simple_functions", "fold_constants", inline_simple_functions(model))
    /\ UNCHANGED modified

\* lines 70-72: modified = fold_constants(model, ...)
FoldConstants ==
    /\ pc = "fold_constants"
    /\ \E f \in {fold_constants(model)} :
          /\ InPlace("fold_constants", "remove_unused_nodes", f.g)
          /\ modified' = f.modified

\* line 74 followed by line 76, line 75 left out
RemoveUnusedNodesThenFunctions ==
    /\ pc = "remove_unused_nodes"
    /\ InPlace("remove_unused_nodes", "remove_unused_functions", remove_unused_nodes(model))
    /\ UNCHANGED modified

\* line 74
RemoveUnusedNodes ==
    /\ pc = "remove_unused_nodes"
    /\ InPlace("remove_unused_nodes", "inline_simple_functions_2", remove_unused_nodes(model))
    /\ UNCHANGED modified

\* line 75
InlineSimpleFunctionsAgain ==
    /\ pc = "inline_simple_functions_2"
    /\ InPlace("inline_simple_functions", "remove_unused_functions",
               inline_simple_functions(model))
    /\ UNCHANGED modified

\* line 76
RemoveUnusedFunctions ==
    /\ pc = "remove_unused_functions"
    /\ InPlace("remove_unused_functions", "inline_functions_with_unused_outputs",
               remove_unused_functions(model))
    /\ UNCHANGED modified

\* line 77
InlineFunctionsWithUnusedOutputs ==
    /\ pc = "inline_functions_with_unused_outputs"
    /\ InPlace("inline_functions_with_unused_outputs", "rewrite",
               inline_functions_with_unused_outputs(model))
    /\ UNCHANGED modified

\* lines 79-87: rewriter.rewrite(model, pattern_rewrite_rules=[...]) starts its
\* sweep on a snapshot of the nodes in definition order
RewriteBegin ==
    /\ pc = "rewrite"
    /\ sweep' = [snapshot |-> [i \in 1..Len(model.nodes) |-> model.nodes[i].outputs[1]],
                 k |-> 1, consumed |-> {}]
    /\ hist' = [hist EXCEPT !.passes = Append(@, "rewrite"), !.passStart = model]
    /\ pc' = "sweep"
    /\ UNCHANGED <<args, iter, modified, model, callerModel, aliased, guardVars, serdeVars, attnVars>>

\* the sweep at its next snapshotted node: the rules in list order
SweepAnchor ==
    /\ pc = "sweep"
    /\ sweep.k <= Len(sweep.snapshot)
    /\ \E anchor \in {Producer(model, sweep.snapshot[sweep.k])} :
       \E o \in {IF anchor = 0 \/ sweep.snapshot[sweep.k] \in sweep.consumed
                  THEN Outcome("none", "", "", model)
                  ELSE TryRules(model, pattern_rewrite_rules, 1, anchor)} :
           /\ model' = o.g
           /\ callerModel' = IF aliased THEN o.g ELSE callerModel
           /\ pc' = IF o.status = "raised" THEN "raised" ELSE "sweep"
           /\ sweep' = [sweep EXCEPT !.k = @ + 1]
           /\ hist' = [hist EXCEPT
                         !.changed = @ \/ o.g # model,
                         !.exc = o.exc,
                         !.applied =
                            IF o.status = "applied"
                            THEN Append(@, [rule |-> o.rule,
                                            anchor |-> sweep.snapshot[sweep.k],
                                            accepting |-> AcceptingRules(model,
                                                pattern_rewrite_rules, anchor)])
                            ELSE @]
    /\ UNCHANGED <<args, iter, modified, aliased, guardVars, serdeVars, attnVars>>

\* the sweep is over: rewrite returns the model
RewriteEnd ==
    /\ pc = "sweep"
    /\ sweep.k > Len(sweep.snapshot)
    /\ sweep' = NoSweep
    /\ hist' = [hist EXCEPT !.passStart = model]
    /\ pc' = "check"
    /\ UNCHANGED <<args, iter, modified, model, callerModel, aliased, guardVars, serdeVars, attnVars>>

\* lines 88-90: if stop_if_no_change and not modified: break
CheckStop ==
    /\ pc = "check"
    /\ iter' = iter + 1
    /\ IF args.stop_if_no_change /\ ~modified
       THEN /\ pc' = "return"
            /\ hist' = [hist EXCEPT !.exit = "break"]
       ELSE /\ pc' = "loop"
            /\ UNCHANGED hist
    /\ UNCHANGED <<args, modified, model, callerModel, aliased, sweep, guardVars, serdeVars, attnVars>>

\* lines 92-107: return model
ReturnModel ==
    /\ pc = "return"
    /\ pc' = "returned"
    /\ UNCHANGED <<args, iter, modified, model, callerModel, aliased, sweep, hist, guardVars, serdeVars, attnVars>>

Next ==
    \/ LoopHead
    \/ InferShapes
    \/ InlineSimpleFunctions
    \/ FoldConstants
    \/ RemoveUnusedNodes
    \/ InlineSimpleFunctionsAgain
    \/ RemoveUnusedFunctions
    \/ InlineFunctionsWithUnusedOutputs
    \/ RewriteBegin
    \/ SweepAnchor
    \/ RewriteEnd
    \/ CheckStop
    \/ ReturnModel

Spec == Init /\ [][Next]_vars

(***************************************************************************)
(* Properties of optimize()                                                *)
(***************************************************************************)
\* C1: when optimize stops before num_iterations iterations are done, no pass of
\* the iteration it just finished changed the model
C1_EarlyStopOnlyAfterNoChange ==
    hist.exit = "break" => ~hist.changed

\* the loop has run at most num_iterations times and has ended only at its bound
\* or at the no-change check
IterationsWithinBound ==
    /\ iter <= args.num_iterations
    /\ pc \in {"return", "returned"} =>
          /\ hist.exit \in {"bound", "break"}
          /\ hist.exit = "bound" => iter = args.num_iterations
          /\ hist.exit = "break" => args.stop_if_no_change /\ ~modified
          /\ ~args.stop_if_no_change => iter = args.num_iterations
          /\ args.stop_if_no_change /\ args.num_iterations >= 1 =>
                iter \in 1..args.num_iterations
    /\ pc \notin {"return", "returned"} => hist.exit = "none"

\* the steps optimize() has left at most: those of the iteration under way and
\* those of the iterations to come
StepsLeftInIteration ==
    CASE pc \in {"returned", "raised", "idle", "anchor", "swept"} -> 0
      [] pc = "return" -> 1
      [] pc = "check" -> 2
      [] pc = "sweep" -> 4 + Len(sweep.snapshot) - sweep.k
      [] pc = "rewrite" -> 5 + 7 * MaxChains
      [] pc = "inline_functions_with_unused_outputs" -> 6 + 7 * MaxChains
      [] pc = "remove_unused_functions" -> 7 + 7 * MaxChains
      [] pc = "inline_simple_functions_2" -> 8 + 7 * MaxChains
      [] pc = "remove_unused_nodes" -> 9 + 7 * MaxChains
      [] pc = "fold_constants" -> 10 + 7 * MaxChains
      [] pc = "inline_simple_functions" -> 11 + 7 * MaxChains
      [] pc = "infer_shapes" -> 12 + 7 * MaxChains
      [] pc = "loop" -> 13 + 7 * MaxChains

StepsLeft ==
    (args.num_iterations - iter) * (14 + 7 * MaxChains) + StepsLeftInIteration

\* C2: optimize terminates, every step leaving fewer steps to take, having run the
\* passes num_iterations times without stop_if_no_change and 1 to num_iterations
\* times with it (num_iterations >= 1), and its loop ends only at the iteration
\* bound or at the no-change check
C2_TerminatesWithinBound ==
    /\ [](IterationsWithinBound /\ StepsLeft \in Nat)
    /\ [][StepsLeft' < StepsLeft]_vars

\* optimize stopped early, after one iteration of two
C2_StoppedEarly ==
    /\ pc = "returned"
    /\ args.num_iterations = 2
    /\ iter = 1
    /\ hist.exit = "break"

\* C3: when a pass raises, optimize has returned no model and the caller's model
\* is the one given or the result of the passes completed so far
C3_NoHalfAppliedModel ==
    pc = "raised" =>
        /\ hist.exit = "none"
        /\ callerModel \in {hist.given, hist.passStart}

\* the passes of one iteration, in the order of lines 58-87
PassOrder ==
    (IF args.onnx_shape_inference /\ ~args.too_large THEN <<"infer_shapes">> ELSE <<>>)
    \o <<"inline_simple_functions", "fold_constants", "remove_unused_nodes",
         "inline_simple_functions", "remove_unused_functions",
         "inline_functions_with_unused_outputs", "rewrite">>

\* C4 as stated: in each iteration the rule sweep runs before dead-node elimination
C4_SweepBeforeDeadNodeElimination ==
    pc = "check" =>
        \E i, j \in 1..Len(hist.passes) :
            /\ i < j
            /\ hist.passes[i] = "rewrite"
            /\ hist.passes[j] = "remove_unused_nodes"

\* C4: each iteration runs shape refresh, function inlining, constant folding,
\* dead-node elimination, function inlining, dead-function elimination, inlining of
\* functions with unused outputs and then the rule sweep, one after another; the
\* sweep is the last pass, after the dead-node elimination of its iteration
C4_PassOrder ==
    /\ Len(hist.passes) <= Len(PassOrder)
    /\ hist.passes = SubSeq(PassOrder, 1, Len(hist.passes))
    /\ pc \in {"sweep", "check"} => hist.passes = PassOrder

\* an iteration is over whose sweep left nodes for the next dead-node elimination
C4_SweepLeftDeadNodes ==
    /\ pc = "check"
    /\ hist.applied # <<>>
    /\ remove_unused_nodes(model) # model

\* the place of the rule called name in a list of rules
IndexOf(rules, name) == CHOOSE r \in 1..Len(rules) : rules[r].name = name

\* a node the sweep built reads the output of the Reshape of input_b
ReadsReshapedB ==
    \E i \in 1..Len(model.nodes) :
        /\ model.nodes[i].outputs[1][2] = "new"
        /\ \E k \in 1..Len(model.nodes[i].inputs) :
              model.nodes[i].inputs[k][2] = "reshape_b"

\* C5: the two-reshape rule stands before the one-reshape rule in
\* broadcast_to_matmul.rules and in the list optimize hands to rewrite, and where
\* both rules match with an accepting guard the two-reshape rule is the one applied
\* and only its replacement, MatMul(input_a, input_b), is built
C5_TwoReshapeRuleFirst ==
    /\ IndexOf(broadcast_to_matmul_rules, "two_reshapes_matmul_reshape_rule")
         < IndexOf(broadcast_to_matmul_rules, "one_reshape_matmul_reshape_rule")
    /\ IndexOf(pattern_rewrite_rules, "two_reshapes_matmul_reshape_rule")
         < IndexOf(pattern_rewrite_rules, "one_reshape_matmul_reshape_rule")
    /\ \A i \in 1..Len(hist.applied) :
          {"two_reshapes_matmul_reshape_rule", "one_reshape_matmul_reshape_rule"}
              \subseteq hist.applied[i].accepting
          => hist.applied[i].rule = "two_reshapes_matmul_reshape_rule"
    /\ ~ReadsReshapedB

\* a rule was applied at a node where both rules match and both guards accept
C5_BothRulesAccepted ==
    \E i \in 1..Len(hist.applied) :
        /\ {"two_reshapes_matmul_reshape_rule", "one_reshape_matmul_reshape_rule"}
              \subseteq hist.applied[i].accepting
        /\ \E n \in 1..Len(model.nodes) :
              /\ model.nodes[n].outputs[1][2] = "new"
              /\ model.nodes[n].op_type = "MatMul"
              /\ model.nodes[n].inputs
                    = <<<<hist.applied[i].anchor[1], "input_a">>,
                        <<hist.applied[i].anchor[1], "input_b">>>>

(***************************************************************************)
(* Properties of check_if_need_reshape and of the rules it guards          *)
(***************************************************************************)
\* the guard of the reshape rules was called on bindings of known shapes and a
\* known 1-D shape_c
CalledOnKnown ==
    /\ gkind = "reshape"
    /\ bindings0.input_a.shape.tag = "list"
    /\ bindings0.input_b.shape.tag = "list"
    /\ bindings0.shape_c.value_as_np_array.tag = "ndarray"
    /\ bindings0.shape_c.value_as_np_array.ndim = 1

ShapeOfA == bindings0.input_a.shape.dims

ShapeOfB == bindings0.input_b.shape.dims

ShapeC == bindings0.shape_c.value_as_np_array.data

\* input_a is [..., m, k] and input_b is [k, n]
BatchedTimesMatrix ==
    /\ CalledOnKnown
    /\ Len(ShapeOfA) >= 2
    /\ Len(ShapeOfB) = 2
    /\ ShapeOfA[Len(ShapeOfA)] = ShapeOfB[1]

IsScenarioA ==
    /\ CalledOnKnown
    /\ ShapeOfA = <<2, 3, 4>>
    /\ ShapeOfB = <<4, 5>>
    /\ ShapeC = <<2, 3, 5>>

\* the sweep applied rule at the end of the chain
Applied(rule) ==
    /\ pc = "swept"
    /\ Len(hist.applied) = 1
    /\ hist.applied[1].rule = rule

\* once its dead nodes are removed the graph is the node MatMul(input_a, input_b)
\* alone, and the graph returns its output
SingleMatMul ==
    /\ remove_unused_nodes(model).nodes
          = <<Node("", "MatMul", <<<<1, "input_a">>, <<1, "input_b">>>>,
                   <<<<1, "new">>>>, {})>>
    /\ model.outputs = <<<<1, "new">>>>

\* C6: for input_a [..., m, k], input_b [k, n] and a known 1-D shape_c the guard
\* returns True exactly when shape_c is input_a.shape[:-1] + [n], and then the
\* one-reshape rule replaces the chain by the node MatMul(input_a, input_b), as
\* it does for shapes [2,3,4], [4,5] and shape_c [2,3,5]
C6_GuardOnBatchedTimesMatrix ==
    /\ BatchedTimesMatrix /\ calls >= 1 =>
          /\ ret \in {"True", "False"}
          /\ ret = "True" <=> ShapeC = SliceTo(ShapeOfA, -1) \o <<ShapeOfB[2]>>
    /\ BatchedTimesMatrix /\ pc \notin {"anchor"} =>
          /\ pc = "swept"
          /\ Applied("one_reshape_matmul_reshape_rule")
                <=> ShapeC = SliceTo(ShapeOfA, -1) \o <<ShapeOfB[2]>>
          /\ Applied("one_reshape_matmul_reshape_rule") => SingleMatMul
          /\ hist.applied = <<>> => model = ChainOfBindings(bindings0)
    /\ IsScenarioA /\ calls >= 1 => ret = "True"
    /\ IsScenarioA /\ pc # "anchor" =>
          Applied("one_reshape_matmul_reshape_rule") /\ SingleMatMul

\* the chain of Scenario A was swept and is the single MatMul
C6_ScenarioACollapsed ==
    /\ IsScenarioA
    /\ Applied("one_reshape_matmul_reshape_rule")
    /\ SingleMatMul

\* C7: when the guard returns True, MatMul(input_a, input_b) is defined under the
\* broadcasting rules of MatMul and its output shape is shape_c
C7_GuardSound ==
    gkind = "reshape" /\ calls >= 1 /\ ret = "True" =>
        /\ MatMulShape(ShapeOfA, ShapeOfB).ok
        /\ MatMulShape(ShapeOfA, ShapeOfB).dims = ShapeC

\* C8: when the shapes are known, MatMul(input_a, input_b) is defined and shape_c
\* is a known 1-D array equal to its output shape, the guard returns True
C8_GuardComplete ==
    /\ CalledOnKnown
    /\ calls >= 1
    /\ MatMulShape(ShapeOfA, ShapeOfB).ok
    /\ MatMulShape(ShapeOfA, ShapeOfB).dims = ShapeC
    => ret = "True"

\* something the guard needs is unknown
Unknown ==
    /\ gkind = "reshape"
    /\ \/ bindings0.shape_c.value_as_np_array.tag # "ndarray"
       \/ bindings0.shape_c.value_as_np_array.ndim # 1
       \/ bindings0.input_a.shape.tag = "None"
       \/ bindings0.input_b.shape.tag = "None"

\* C9: the guard returns False when shape_c is None, is no numpy array or is not
\* 1-D, and when the shape of input_a or of input_b is None; no rule is applied
\* then and the chain stays as it was
C9_RejectsOnUnknown ==
    /\ Unknown /\ calls >= 1 => ret = "False"
    /\ Unknown /\ pc # "anchor" =>
          /\ pc = "swept"
          /\ hist.applied = <<>>
          /\ model = ChainOfBindings(bindings0)

\* the sweep has passed a chain whose shape_c is no known constant
C9_UnknownChainSwept ==
    /\ gkind = "reshape"
    /\ bindings0.shape_c.value_as_np_array.tag = "None"
    /\ bindings0.input_a.shape = Shape(<<2, 3, 4>>)
    /\ bindings0.input_b.shape = Shape(<<4, 5>>)
    /\ pc = "swept"
    /\ model = ChainOfBindings(bindings0)

\* C10: a call of either guard leaves the bindings, every bound shape list and
\* constant array, as they were, and a second call on them returns what the
\* first returned
C10_GuardsPure ==
    /\ bindings = bindings0
    /\ calls >= 2 => ret = prevRet

\* the guard was called twice on a 1-D input_a, to whose shape it prepends 1, and
\* returned True
C10_CalledTwice ==
    /\ calls = 2
    /\ CalledOnKnown
    /\ Len(ShapeOfA) = 1
    /\ ret = "True"
    /\ prevRet = "True"

(***************************************************************************)
(* Properties of the Gemm rule                                             *)
(***************************************************************************)
\* the Gemm node of the chain has alpha = 1.0 and beta = 1.0
GemmHasUnitAlphaBeta ==
    \E i \in 1..Len(model.nodes) :
        /\ model.nodes[i].op_type = "Gemm"
        /\ {<<"alpha", 1>>, <<"beta", 1>>} \subseteq model.nodes[i].attrs

\* once its dead nodes are removed the graph is MatMul(input_a, input_b) followed
\* by Add(_, input_c), and the graph returns the output of the Add
MatMulThenAdd ==
    /\ remove_unused_nodes(model).nodes
          = <<Node("", "MatMul", <<<<1, "input_a">>, <<1, "input_b">>>>,
                   <<<<1, "new">>>>, {}),
              Node("", "Add", <<<<1, "new">>, <<1, "input_c">>>>,
                   <<<<2, "new">>>>, {})>>
    /\ model.outputs = <<<<2, "new">>>>
    /\ \A v \in {<<1, "input_a">>, <<1, "input_b">>, <<1, "input_c">>} :
          model.values[v].shape = bindings0[v[2]].shape

DictSet(d, k, v) == [n \in (DOMAIN d) \cup {k} |-> IF n = k THEN v ELSE d[n]]

\* an exception raised out of a serde function
Raise(exc) == [exc |-> exc]

\* the function returned normally
Returned(r) == r.exc = ""

\* `r = call; ...F(r)...` where an exception raised by the call propagates
Then(call, F(_)) == Bind(call, LAMBDA r : IF Returned(r) THEN F(r) ELSE r)

(***************************************************************************)
(* ir/serde.py: tensors                                                    *)
(***************************************************************************)
FloatDataTensor_compatible_types == {"FLOAT", "COMPLEX64"}

Int32DataTensor_compatible_types ==
    {"INT32", "INT16", "INT8", "INT4", "UINT16", "UINT8", "UINT4", "BOOL",
     "FLOAT16", "BFLOAT16", "FLOAT8E4M3FN", "FLOAT8E4M3FNUZ", "FLOAT8E5M2",
     "FLOAT8E5M2FNUZ"}

Int64DataTensor_compatible_types == {"INT64"}

DoubleDataTensor_compatible_types == {"DOUBLE", "COMPLEX128"}

UInt64DataTensor_compatible_types == {"UINT64", "UINT32"}

\* the specialized tensor classes, in the order deserialize_tensor tries them
SpecializedClasses ==
    <<"FloatDataTensor", "Int32DataTensor", "Int64DataTensor", "DoubleDataTensor",
      "UInt64DataTensor">>

compatible_types(cls) ==
    CASE cls = "FloatDataTensor" -> FloatDataTensor_compatible_types
      [] cls = "Int32DataTensor" -> Int32DataTensor_compatible_types
      [] cls = "Int64DataTensor" -> Int64DataTensor_compatible_types
      [] cls = "DoubleDataTensor" -> DoubleDataTensor_compatible_types
      [] cls = "UInt64DataTensor" -> UInt64DataTensor_compatible_types

\* the data types for which no specialized class exists
UnspecializedDataTypes == {"UNDEFINED", "STRING"}

DataTypes ==
    UNION {compatible_types(SpecializedClasses[i]) : i \in 1..Len(SpecializedClasses)}
        \cup UnspecializedDataTypes

\* TensorProtoTensor(proto)
TensorProtoTensor(tensor) == [exc |-> "", cls |-> "TensorProtoTensor", raw |-> tensor]

\* cls(proto) for a specialized class: __init__ checks the data type
SpecializedTensor(cls, tensor) ==
    IF tensor.data_type \notin compatible_types(cls)
    THEN Raise("ValueError")
    ELSE [exc |-> "", cls |-> cls, raw |-> tensor]

\* _core.ExternalTensor(path=os.path.join("", location), offset=..., length=..., ...)
ExternalTensor(tensor) ==
    [exc |-> "", cls |-> "ExternalTensor",
     path |-> tensor.external_data.location,
     offset |-> tensor.external_data.offset,
     length |-> tensor.external_data.length,
     dtype |-> tensor.data_type, name |-> tensor.name, shape |-> tensor.dims]

\* the chain of `if tensor.data_type in X.compatible_types: return X(tensor)`
RECURSIVE FirstCompatible(_, _)
FirstCompatible(tensor, i) ==
    IF i > Len(SpecializedClasses) THEN Raise("ValueError")
    ELSE IF tensor.data_type \in compatible_types(SpecializedClasses[i])
         THEN SpecializedTensor(SpecializedClasses[i], tensor)
         ELSE FirstCompatible(tensor, i + 1)

\* a deserializer that looks at raw_data before the data location
deserialize_tensor_raw_data_first(tensor) ==
    IF tensor.has_raw_data THEN TensorProtoTensor(tensor)
    ELSE IF tensor.data_location = "EXTERNAL" THEN ExternalTensor(tensor)
    ELSE FirstCompatible(tensor, 1)

deserialize_tensor(tensor) ==
    IF tensor.data_location = "EXTERNAL" THEN ExternalTensor(tensor)
    ELSE IF tensor.has_raw_data THEN TensorProtoTensor(tensor)
    ELSE FirstCompatible(tensor, 1)

\* a TensorProto with default fields
DefaultTensorProto ==
    [name |-> "", data_type |-> "UNDEFINED", dims |-> <<>>, data_location |-> "DEFAULT",
     external_data |-> [location |-> "", offset |-> "", length |-> ""],
     has_raw_data |-> FALSE, data |-> <<>>]

serialize_tensor_into(from_) ==
    IF from_.cls # "ExternalTensor"
    THEN from_.raw
    ELSE [DefaultTensorProto EXCEPT
            !.name = from_.name, !.data_type = from_.dtype, !.dims = from_.shape,
            !.data_location = "EXTERNAL",
            !.external_data = [location |-> from_.path, offset |-> from_.offset,
                               length |-> from_.length]]

(***************************************************************************)
(* ir/serde.py: attributes, nodes and graphs                               *)
(***************************************************************************)
\* bytes.decode("utf-8") on byte strings of one- and two-byte characters:
\* the sequence of code points, or UnicodeDecodeError
RECURSIVE Utf8Decode(_)
Utf8Decode(b) ==
    IF b = <<>> THEN [exc |-> "", str |-> <<>>]
    ELSE IF b[1] < 128
    THEN Then(Utf8Decode(Tail(b)), LAMBDA r : [exc |-> "", str |-> <<b[1]>> \o r.str])
    ELSE IF b[1] \in 194..223 /\ Len(b) >= 2 /\ b[2] \in 128..191
    THEN Then(Utf8Decode(Tail(Tail(b))),
              LAMBDA r : [exc |-> "", str |-> <<(b[1] - 192) * 64 + (b[2] - 128)>> \o r.str])
    ELSE Raise("UnicodeDecodeError")

\* an encoder that writes one byte per character
Utf8EncodeOneBytePerCharacter(s) == [k \in 1..Len(s) |-> s[k] % 256]

\* str.encode("utf-8") on code points below 2048
RECURSIVE Utf8Encode(_)
Utf8Encode(s) ==
    IF s = <<>> THEN <<>>
    ELSE (IF s[1] < 128 THEN <<s[1]>> ELSE <<192 + (s[1] \div 64), 128 + (s[1] % 64)>>)
            \o Utf8Encode(Tail(s))

\* [f(x) for x in xs] for an f that can raise: the first exception wins
RECURSIVE MapRaising(_, _, _)
MapRaising(F(_), xs, acc) ==
    IF xs = <<>> THEN [exc |-> "", list |-> acc]
    ELSE Then(F(xs[1]), LAMBDA r : MapRaising(F, Tail(xs), Append(acc, r)))

\* a GraphProto with default fields
DefaultGraphProto == [input |-> <<>>, initializer |-> <<>>, node |-> <<>>, output |-> <<>>]

\* an AttributeProto with default fields
DefaultAttributeProto ==
    [name |-> "", type |-> "UNDEFINED", ref_attr_name |-> "", i |-> 0, f |-> 0, s |-> <<>>,
     ints |-> <<>>, floats |-> <<>>, strings |-> <<>>, t |-> DefaultTensorProto,
     g |-> DefaultGraphProto, tensors |-> <<>>, graphs |-> <<>>]

\* the members of _enums.AttributeType that serde.py dispatches on
SupportedAttributeTypes ==
    {"INT", "FLOAT", "STRING", "INTS", "FLOATS", "STRINGS", "TENSOR", "GRAPH", "TENSORS",
     "GRAPHS"}

\* the members that fall through to the final raise
UnsupportedAttributeTypes ==
    {"UNDEFINED", "SPARSE_TENSOR", "SPARSE_TENSORS", "TYPE_PROTO", "TYPE_PROTOS"}

\* _core.Attr and its typed subclasses
Attr(name, type, value, sv) ==
    [exc |-> "", cls |-> "Attr", name |-> name, type |-> type, value |-> value,
     scoped_values |-> sv]

RefAttr(name, ref_attr_name, type, sv) ==
    [exc |-> "", cls |-> "RefAttr", name |-> name, ref_attr_name |-> ref_attr_name,
     type |-> type, scoped_values |-> sv]

\* a Value of the IR: its name and the place that created the object
\* (the scope it was created in, and the input, initializer or node output it is)
IrValue(name, scope, kind, node, idx) ==
    [name |-> name, scope |-> scope, kind |-> kind, node |-> node, idx |-> idx]

\* Python's None in a node input slot
None == IrValue("", <<>>, "None", 0, 0)

\* a search that starts at the outermost scope
RECURSIVE FindInScopesOutermostFirst(_, _, _)
FindInScopesOutermostFirst(name, scoped_values, d) ==
    IF d = 0 THEN Raise("ValueError")
    ELSE Bind(FindInScopesOutermostFirst(name, scoped_values, d - 1),
              LAMBDA outer :
                 IF Returned(outer) THEN outer
                 ELSE IF name \in DOMAIN scoped_values[d]
                      THEN [exc |-> "", value |-> scoped_values[d][name]]
                      ELSE outer)

\* for values in reversed(scoped_values): if name in values: return values[name]
RECURSIVE FindInScopes(_, _, _)
FindInScopes(name, scoped_values, d) ==
    IF d = 0 THEN Raise("ValueError")
    ELSE IF name \in DOMAIN scoped_values[d]
         THEN [exc |-> "", value |-> scoped_values[d][name]]
         ELSE FindInScopes(name, scoped_values, d - 1)

\* a loop that skips an empty input name instead of appending None
RECURSIVE NodeInputsSkippingEmpty(_, _, _, _)
NodeInputsSkippingEmpty(names, k, scoped_values, acc) ==
    IF k > Len(names) THEN [exc |-> "", node_inputs |-> acc]
    ELSE IF names[k] = "" THEN NodeInputsSkippingEmpty(names, k + 1, scoped_values, acc)
    ELSE Then(FindInScopes(names[k], scoped_values, Len(scoped_values)),
              LAMBDA r : NodeInputsSkippingEmpty(names, k + 1, scoped_values,
                                                 Append(acc, r.value)))

\* the loop over proto.input of _deserialize_node
RECURSIVE NodeInputs(_, _, _, _)
NodeInputs(names, k, scoped_values, acc) ==
    IF k > Len(names) THEN [exc |-> "", node_inputs |-> acc]
    ELSE IF names[k] = "" THEN NodeInputs(names, k + 1, scoped_values, Append(acc, None))
    ELSE Then(FindInScopes(names[k], scoped_values, Len(scoped_values)),
              LAMBDA r : NodeInputs(names, k + 1, scoped_values, Append(acc, r.value)))

\* the loop over zip(proto.output, node.outputs): scoped_values[-1][output] = value
RECURSIVE RegisterOutputs(_, _, _, _, _)
RegisterOutputs(names, k, scoped_values, scope, n) ==
    IF k > Len(names) THEN [exc |-> "", scoped_values |-> scoped_values]
    ELSE IF scoped_values = <<>> THEN Raise("IndexError")
    ELSE RegisterOutputs(names, k + 1,
            [scoped_values EXCEPT ![Len(scoped_values)] =
                DictSet(@, names[k], IrValue(names[k], scope, "output", n, k))],
            scope, n)

\* the loop over the initializers of _deserialize_graph
RECURSIVE AddInitializers(_, _, _, _)
AddInitializers(initializers, k, values, scope) ==
    IF k > Len(initializers) THEN values
    ELSE AddInitializers(initializers, k + 1,
            IF initializers[k].raw.name \in DOMAIN values
            THEN values
            ELSE DictSet(values, initializers[k].raw.name,
                         IrValue(initializers[k].raw.name, scope, "initializer", 0, k)),
            scope)

\* a return that leaves the scope of the graph on the stack
ScopeKept(scoped_values) == scoped_values

\* scoped_values.pop()
ScopePop(scoped_values) == SubSeq(scoped_values, 1, Len(scoped_values) - 1)

RECURSIVE _deserialize_graph(_, _, _)
RECURSIVE _deserialize_graphs(_, _, _, _, _)
RECURSIVE _deserialize_attribute(_, _, _)
RECURSIVE _deserialize_attributes(_, _, _, _, _)
RECURSIVE _deserialize_node(_, _, _, _)
RECURSIVE _deserialize_nodes(_, _, _, _, _)

\* scope is the place of the object being built: the node indices, attribute
\* indices and graph indices that lead to it from the outermost graph
_deserialize_attribute(proto, scoped_values, scope) ==
    IF proto.ref_attr_name # ""
    THEN RefAttr(proto.name, proto.ref_attr_name, proto.type, scoped_values)
    ELSE CASE proto.type = "INT" -> Attr(proto.name, "INT", proto.i, scoped_values)
           [] proto.type = "FLOAT" -> Attr(proto.name, "FLOAT", proto.f, scoped_values)
           [] proto.type = "STRING" ->
                Then(Utf8Decode(proto.s),
                     LAMBDA r : Attr(proto.name, "STRING", r.str, scoped_values))
           [] proto.type = "INTS" -> Attr(proto.name, "INTS", proto.ints, scoped_values)
           [] proto.type = "FLOATS" -> Attr(proto.name, "FLOATS", proto.floats, scoped_values)
           [] proto.type = "STRINGS" ->
                Then(MapRaising(Utf8Decode, proto.strings, <<>>),
                     LAMBDA r : Attr(proto.name, "STRINGS",
                                     [k \in 1..Len(r.list) |-> r.list[k].str],
                                     scoped_values))
           [] proto.type = "TENSOR" ->
                Then(deserialize_tensor(proto.t),
                     LAMBDA r : Attr(proto.name, "TENSOR", r, scoped_values))
           [] proto.type = "GRAPH" ->
                Then(_deserialize_graph(proto.g, scoped_values, Append(scope, 1)),
                     LAMBDA r : Attr(proto.name, "GRAPH", r.graph, r.scoped_values))
           [] proto.type = "TENSORS" ->
                Then(MapRaising(deserialize_tensor, proto.tensors, <<>>),
                     LAMBDA r : Attr(proto.name, "TENSORS", r.list, scoped_values))
           [] proto.type = "GRAPHS" ->
                Then(_deserialize_graphs(proto.graphs, 1, scoped_values, scope, <<>>),
                     LAMBDA r : Attr(proto.name, "GRAPHS", r.list, r.scoped_values))
           [] OTHER -> Raise("ValueError")

\* [_deserialize_graph(g, scoped_values) for g in proto.graphs]
_deserialize_graphs(graphs, k, scoped_values, scope, acc) ==
    IF k > Len(graphs) THEN [exc |-> "", list |-> acc, scoped_values |-> scoped_values]
    ELSE Then(_deserialize_graph(graphs[k], scoped_values, Append(scope, k)),
              LAMBDA r : _deserialize_graphs(graphs, k + 1, r.scoped_values, scope,
                                             Append(acc, r.graph)))

\* [_deserialize_attribute(a, scoped_values) for a in proto.attribute]
_deserialize_attributes(attributes, k, scoped_values, scope, acc) ==
    IF k > Len(attributes)
    THEN [exc |-> "", list |-> acc, scoped_values |-> scoped_values]
    ELSE Then(_deserialize_attribute(attributes[k], scoped_values, Append(scope, k)),
              LAMBDA r :
                 _deserialize_attributes(attributes, k + 1, r.scoped_values, scope,
                    Append(acc, [a \in (DOMAIN r) \ {"exc", "scoped_values"} |-> r[a]])))

\* n is the position of the node in its graph
_deserialize_node(proto, scoped_values, scope, n) ==
    Then(NodeInputs(proto.input, 1, scoped_values, <<>>),
         LAMBDA ins :
            Then(_deserialize_attributes(proto.attribute, 1, scoped_values,
                                         Append(scope, n), <<>>),
                 LAMBDA attrs :
                    Then(RegisterOutputs(proto.output, 1, attrs.scoped_values, scope, n),
                         LAMBDA outs :
                            [exc |-> "",
                             node |-> [inputs |-> ins.node_inputs,
                                       attributes |-> attrs.list,
                                       outputs |-> [k \in 1..Len(proto.output) |->
                                           IrValue(proto.output[k], scope, "output", n, k)]],
                             scoped_values |-> outs.scoped_values])))

\* [_deserialize_node(node, scoped_values, value_info) for node in proto.node]
_deserialize_nodes(nodes, n, scoped_values, scope, acc) ==
    IF n > Len(nodes) THEN [exc |-> "", list |-> acc, scoped_values |-> scoped_values]
    ELSE Then(_deserialize_node(nodes[n], scoped_values, scope, n),
              LAMBDA r : _deserialize_nodes(nodes, n + 1, r.scoped_values, scope,
                                            Append(acc, r.node)))

\* {v.name: v for v in inputs}: the last input of a name is the one kept
InputsByName(names, scope) ==
    [name \in {names[i] : i \in 1..Len(names)} |->
        LET i == CHOOSE j \in 1..Len(names) :
                    /\ names[j] = name
                    /\ \A l \in (j + 1)..Len(names) : names[l] # name
        IN IrValue(name, scope, "input", 0, i)]

_deserialize_graph(proto, scoped_values, scope) ==
    Then(MapRaising(deserialize_tensor, proto.initializer, <<>>),
         LAMBDA initializers :
            Then(_deserialize_nodes(proto.node, 1,
                    Append(scoped_values,
                           AddInitializers(initializers.list, 1,
                                           InputsByName(proto.input, scope), scope)),
                    scope, <<>>),
                 LAMBDA nodes :
                    Bind(nodes.scoped_values[Len(nodes.scoped_values)],
                         LAMBDA filled :
                            IF \E k \in 1..Len(proto.output) :
                                    proto.output[k] \notin DOMAIN filled
                            THEN Raise("KeyError")
                            ELSE [exc |-> "",
                                  graph |-> [inputs |-> [i \in 1..Len(proto.input) |->
                                                IrValue(proto.input[i], scope, "input", 0, i)],
                                             outputs |-> [k \in 1..Len(proto.output) |->
                                                             filled[proto.output[k]]],
                                             nodes |-> nodes.list,
                                             initializers |-> initializers.list],
                                  scoped_values |-> ScopePop(nodes.scoped_values)])))

deserialize_graph(proto) == _deserialize_graph(proto, <<>>, <<>>)

deserialize_attribute(proto) == _deserialize_attribute(proto, <<>>, <<>>)

RECURSIVE serialize_graph_into(_)
RECURSIVE serialize_node_into(_)
RECURSIVE _fill_in_value_for_attribute(_, _, _)

\* the serializers return the filled message in field `proto`
Filled(proto) == [exc |-> "", proto |-> proto]

\* the messages of a list of results
Protos(list) == [k \in 1..Len(list) |-> list[k].proto]

_fill_in_value_for_attribute(attribute_proto, type_, value) ==
    CASE type_ = "INT" -> Filled([attribute_proto EXCEPT !.i = value, !.type = "INT"])
      [] type_ = "FLOAT" -> Filled([attribute_proto EXCEPT !.f = value, !.type = "FLOAT"])
      [] type_ = "STRING" ->
            Filled([attribute_proto EXCEPT !.s = Utf8Encode(value), !.type = "STRING"])
      [] type_ = "INTS" -> Filled([attribute_proto EXCEPT !.ints = value, !.type = "INTS"])
      [] type_ = "FLOATS" ->
            Filled([attribute_proto EXCEPT !.floats = value, !.type = "FLOATS"])
      [] type_ = "STRINGS" ->
            Filled([attribute_proto EXCEPT
                      !.strings = [k \in 1..Len(value) |-> Utf8Encode(value[k])],
                      !.type = "STRINGS"])
      [] type_ = "TENSOR" ->
            Filled([attribute_proto EXCEPT !.t = serialize_tensor_into(value),
                                           !.type = "TENSOR"])
      [] type_ = "GRAPH" ->
            Then(serialize_graph_into(value),
                 LAMBDA r : Filled([attribute_proto EXCEPT !.g = r.proto, !.type = "GRAPH"]))
      [] type_ = "TENSORS" ->
            Filled([attribute_proto EXCEPT
                      !.tensors = [k \in 1..Len(value) |-> serialize_tensor_into(value[k])],
                      !.type = "TENSORS"])
      [] type_ = "GRAPHS" ->
            Then(MapRaising(serialize_graph_into, value, <<>>),
                 LAMBDA r : Filled([attribute_proto EXCEPT !.graphs = Protos(r.list),
                                                           !.type = "GRAPHS"]))
      [] OTHER -> Raise("TypeError")

serialize_attribute_into(from_) ==
    _fill_in_value_for_attribute([DefaultAttributeProto EXCEPT !.name = from_.name],
                                 from_.type, from_.value)

serialize_reference_attribute_into(from_) ==
    Filled([DefaultAttributeProto EXCEPT !.name = from_.name,
                                         !.ref_attr_name = from_.ref_attr_name,
                                         !.type = from_.type])

\* the isinstance dispatch of serialize_node_into
SerializeAttr(attr) ==
    IF attr.cls = "Attr" THEN serialize_attribute_into(attr)
    ELSE IF attr.cls = "RefAttr" THEN serialize_reference_attribute_into(attr)
    ELSE Raise("TypeError")

\* node_proto.input.append("" if input_ is None else input_.name)
InputName(input_) == IF input_ = None THEN "" ELSE input_.name

InputNames(inputs) == [k \in 1..Len(inputs) |-> InputName(inputs[k])]

serialize_node_into(from_) ==
    Then(MapRaising(SerializeAttr, from_.attributes, <<>>),
         LAMBDA attrs :
            Filled([input |-> InputNames(from_.inputs),
                    output |-> [k \in 1..Len(from_.outputs) |-> from_.outputs[k].name],
                    attribute |-> Protos(attrs.list)]))

serialize_graph_into(from_) ==
    Then(MapRaising(serialize_node_into, from_.nodes, <<>>),
         LAMBDA nodes :
            Filled([input |-> [k \in 1..Len(from_.inputs) |-> from_.inputs[k].name],
                    initializer |-> [k \in 1..Len(from_.initializers) |->
                                        serialize_tensor_into(from_.initializers[k])],
                    node |-> Protos(nodes.list),
                    output |-> [k \in 1..Len(from_.outputs) |-> from_.outputs[k].name]]))

(***************************************************************************)
(* ir/serde.py: the enumerated messages                                    *)
(***************************************************************************)
\* largest number of input slots of an enumerated node
MaxInputs == 3

\* largest number of nodes of an enumerated outermost graph
MaxNodes == 2

NodeProto(input, output, attribute) ==
    [input |-> input, output |-> output, attribute |-> attribute]

GraphProto(input, initializer, node, output) ==
    [input |-> input, initializer |-> initializer, node |-> node, output |-> output]

\* an initializer: a tensor with raw data
InitializerProto(name) ==
    [DefaultTensorProto EXCEPT !.name = name, !.data_type = "FLOAT",
                               !.has_raw_data = TRUE, !.data = <<0>>]

\* a graph-valued attribute, as the branches of an If node or the body of a Loop
GraphAttributeProto(name, g) ==
    [DefaultAttributeProto EXCEPT !.name = name, !.type = "GRAPH", !.g = g]

\* graphs of one node whose input slots are present ("x") or missing ("")
SlotGraphs ==
    {GraphProto(<<"x">>, <<>>, <<NodeProto(ins, <<"y">>, <<>>)>>, <<"y">>) :
        ins \in SeqsUpTo({"", "x"}, MaxInputs)}

\* subgraphs of one node: the node reads a name of the outer graph ("x", "y")
\* or the name every subgraph defines ("w"); an initializer may shadow "x";
\* the declared output is the node's output or the outer "x"
Branches ==
    {GraphProto(<<>>, inits, <<NodeProto(<<i>>, <<"w">>, <<>>)>>, <<o>>) :
        inits \in {<<>>, <<InitializerProto("x")>>}, i \in {"x", "y", "w"},
        o \in {"w", "x"}}

\* a second subgraph of the same node
Siblings ==
    {GraphProto(<<>>, <<>>, <<NodeProto(<<i>>, <<"w">>, <<>>)>>, <<"w">>) :
        i \in {"x", "y", "w"}}

\* the graph attributes of a node: none, one branch, or a branch and a sibling
BranchAttributes ==
    {<<>>}
        \cup {<<GraphAttributeProto("then_branch", b)>> : b \in Branches}
        \cup {<<GraphAttributeProto("then_branch", b), GraphAttributeProto("else_branch", s)>> :
                b \in Branches, s \in Siblings}

\* nodes of the outermost graph: one input, one output that may reuse a name
PlainNodes ==
    {NodeProto(<<i>>, <<o>>, <<>>) : i \in {"x", "y", "w"}, o \in {"x", "y"}}

\* outermost graphs: input "x", up to MaxNodes nodes of which at most one carries
\* subgraphs, one declared output
ScopeGraphs ==
    {GraphProto(<<"x">>, <<>>,
                [n \in 1..Len(nodes) |->
                    IF n = at THEN [nodes[n] EXCEPT !.attribute = attrs] ELSE nodes[n]],
                <<o>>) :
        nodes \in SeqsUpTo(PlainNodes, MaxNodes), at \in 1..MaxNodes,
        attrs \in BranchAttributes, o \in {"x", "y"}}

\* a subgraph inside a subgraph: three scopes on the stack
InnermostGraphs ==
    {GraphProto(<<>>, <<>>, <<NodeProto(<<i>>, <<"v">>, <<>>)>>, <<"v">>) :
        i \in {"x", "y", "w", "v"}}

NestedGraphs ==
    {GraphProto(<<"x">>, <<>>,
        <<NodeProto(<<"x">>, <<"y">>, <<>>),
          NodeProto(<<"y">>, <<"z">>,
            <<GraphAttributeProto("body",
                GraphProto(<<>>, inits,
                    <<NodeProto(<<"x">>, <<"w">>, <<>>),
                      NodeProto(<<"w">>, <<o>>,
                                <<GraphAttributeProto("body", inner)>>)>>,
                    <<o>>))>>)>>,
        <<"z">>) :
        inits \in {<<>>, <<InitializerProto("x")>>, <<InitializerProto("y")>>},
        o \in {"u", "y"}, inner \in InnermostGraphs}

GraphProtos == SlotGraphs \cup ScopeGraphs \cup NestedGraphs

\* what a deserializer hands back, without the scope stack it worked on
Result(r) == [a \in (DOMAIN r) \ {"scoped_values"} |-> r[a]]

\* largest length of an enumerated list-valued attribute
MaxList == 2

\* tensor messages: every data type, inline or external, with or without raw_data
TensorProtos ==
    {[DefaultTensorProto EXCEPT
        !.name = "t", !.data_type = dt, !.dims = <<2>>, !.data_location = loc,
        !.external_data = ext, !.has_raw_data = raw, !.data = data] :
        dt \in DataTypes, loc \in {"DEFAULT", "EXTERNAL"}, raw \in BOOLEAN,
        ext \in {[location |-> "", offset |-> "", length |-> ""],
                 [location |-> "w.bin", offset |-> "0", length |-> "8"]},
        data \in {<<>>, <<1, 2>>}}

\* tensor messages as a writer produces them: data either inline or external
WellFormedTensorProtos ==
    {t \in TensorProtos :
        /\ t.has_raw_data => t.data # <<>>
        /\ IF t.data_location = "EXTERNAL"
           THEN ~t.has_raw_data /\ t.data = <<>> /\ t.external_data.location # ""
           ELSE t.external_data.location = "" /\ t.data # <<>>}

\* the tensors of the enumerated TENSORS attributes: raw FLOAT, float_data,
\* external INT64 and string_data
ListedTensorProtos ==
    {t \in WellFormedTensorProtos :
        \/ t.data_type = "FLOAT" /\ t.data_location = "DEFAULT"
        \/ t.data_type = "INT64" /\ t.data_location = "EXTERNAL"
        \/ t.data_type = "STRING" /\ ~t.has_raw_data /\ t.data_location = "DEFAULT"}

\* byte strings: empty, "a", and the two bytes of U+00E9
ByteStrings == {<<>>, <<97>>, <<195, 169>>, <<97, 195, 169>>}

\* the graphs of the enumerated GRAPH and GRAPHS attributes
AttributeGraphs ==
    {GraphProto(<<"x">>, <<>>, <<NodeProto(<<"x", "">>, <<"y">>, <<>>)>>, <<"y">>),
     GraphProto(<<>>, <<InitializerProto("c")>>, <<NodeProto(<<"c">>, <<"y">>, <<>>)>>,
                <<"y", "c">>)}

AttributeTypes == SupportedAttributeTypes \cup UnsupportedAttributeTypes

\* the value an attribute message of the type carries, in the field of the type
AttributeProtosOfType(type) ==
    LET base == [DefaultAttributeProto EXCEPT !.name = "a", !.type = type]
    IN CASE type = "INT" -> {[base EXCEPT !.i = v] : v \in {0, 7}}
         [] type = "FLOAT" -> {[base EXCEPT !.f = v] : v \in {0, 2}}
         [] type = "STRING" -> {[base EXCEPT !.s = v] : v \in ByteStrings}
         [] type = "INTS" -> {[base EXCEPT !.ints = v] : v \in SeqsUpTo({1, 2}, MaxList)}
         [] type = "FLOATS" ->
                {[base EXCEPT !.floats = v] : v \in SeqsUpTo({1, 2}, MaxList)}
         [] type = "STRINGS" ->
                {[base EXCEPT !.strings = v] : v \in SeqsUpTo(ByteStrings \ {<<>>}, MaxList)}
         [] type = "TENSOR" -> {[base EXCEPT !.t = v] : v \in WellFormedTensorProtos}
         [] type = "GRAPH" -> {[base EXCEPT !.g = v] : v \in AttributeGraphs}
         [] type = "TENSORS" ->
                {[base EXCEPT !.tensors = v] : v \in SeqsUpTo(ListedTensorProtos, MaxList)}
         [] type = "GRAPHS" ->
                {[base EXCEPT !.graphs = v] : v \in SeqsUpTo(AttributeGraphs, MaxList)}
         [] OTHER -> {base}

\* attribute messages of every type, plain or with a ref_attr_name
AttributeProtos ==
    UNION {AttributeProtosOfType(type) : type \in AttributeTypes}
        \cup {[DefaultAttributeProto EXCEPT !.name = "a", !.type = type,
                                            !.ref_attr_name = "r"] :
                type \in AttributeTypes}

\* attributes built without a message, as deserialize_function builds the
\* attributes that have no default: _core.Attr(name, AttributeType.UNDEFINED, None)
ConstructedAttrs ==
    {Result(Attr("a", type, 0, <<>>)) : type \in UnsupportedAttributeTypes \cup {"INT"}}

(***************************************************************************)
(* SpecSerde: one message is deserialized, the result is serialized        *)
(***************************************************************************)
\* the message, its type, and the function the caller hands it to
(***************************************************************************)
(* ir/serde.py: models, functions and their value info                     *)
(***************************************************************************)
\* the code points of the texts used as names: str.split, the f-string of
\* format_name and sorted() work on these
Chars(text) ==
    CASE text = "" -> <<>>
      [] text = "d" -> <<100>>
      [] text = "f" -> <<102>>
      [] text = "g" -> <<103>>
      [] text = "v" -> <<118>>
      [] text = "w" -> <<119>>
      [] text = "a/b" -> <<97, 47, 98>>
      [] text = "w::x" -> <<119, 58, 58, 120>>
      [] text = "ai" -> <<97, 105>>
      [] text = "com" -> <<99, 111, 109>>
      [] text = "k" -> <<107>>
      [] text = "ka" -> <<107, 97>>
      [] text = "m" -> <<109>>

\* "/" and "::"
Slash == <<47>>
ColonColon == <<58, 58>>

\* str.split(sep): cut at every occurrence of sep, leftmost first
RECURSIVE Split(_, _)
Split(s, sep) ==
    Bind({i \in 1..(Len(s) - Len(sep) + 1) : SubSeq(s, i, i + Len(sep) - 1) = sep},
         LAMBDA hits :
            IF hits = {} THEN <<s>>
            ELSE Bind(CHOOSE h \in hits : \A o \in hits : h <= o,
                      LAMBDA i : <<SubSeq(s, 1, i - 1)>>
                                    \o Split(SubSeq(s, i + Len(sep), Len(s)), sep)))

\* a < b for two str: the order sorted() uses
LexLess(a, b) ==
    \E i \in 1..Len(b) :
        /\ i <= Len(a) + 1
        /\ \A j \in 1..(i - 1) : a[j] = b[j]
        /\ (i = Len(a) + 1 \/ a[i] < b[i])

\* sorted(keys)
RECURSIVE sorted(_)
sorted(keys) ==
    IF keys = {} THEN <<>>
    ELSE Bind(CHOOSE k \in keys : \A o \in keys \ {k} : LexLess(Chars(k), Chars(o)),
              LAMBDA first : <<first>> \o sorted(keys \ {first}))

\* a dict is the sequence of its <<key, value>> items in insertion order
Keys(dict) == {dict[k][1] : k \in 1..Len(dict)}
Get(dict, key) == dict[CHOOSE k \in 1..Len(dict) : dict[k][1] = key][2]

_serialize_opset_imports_into(from_) ==
    [k \in 1..Len(from_) |-> [domain |-> from_[k][1], version |-> from_[k][2]]]

_serialize_metadata_props_into(from_) ==
    Bind(sorted(Keys(from_)),
         LAMBDA keys : [k \in 1..Len(keys) |-> [key |-> keys[k],
                                                value |-> Get(from_, keys[k])]])

_FUNCTION_VALUE_INFO_SUPPORTED_VERSION == 10

\* value.shape and value.type taken together; "None" when both are None
Typed(function, value) == [name |-> value.name, shape_and_type |-> function.info[value]]

_should_create_value_info_for_value(value) == value.shape_and_type # "None"

serialize_value_into(from_, name) ==
    [name |-> IF name # <<>> THEN name ELSE Chars(from_.name),
     type |-> from_.shape_and_type]

RECURSIVE NodeOutputs(_, _)
NodeOutputs(nodes, n) ==
    IF n > Len(nodes) THEN <<>> ELSE nodes[n].outputs \o NodeOutputs(nodes, n + 1)

\* the function inputs, then the outputs of its nodes, as the serializers visit them
FunctionValues(function) == function.inputs \o NodeOutputs(function.nodes, 1)

serialize_function_into(from_, create_value_info) ==
    Then(MapRaising(serialize_node_into, from_.nodes, <<>>),
         LAMBDA nodes :
            Bind(SelectSeq(FunctionValues(from_),
                    LAMBDA v : _should_create_value_info_for_value(Typed(from_, v))
                               /\ create_value_info),
                 LAMBDA values :
                    Filled([domain |-> from_.domain,
                            name |-> from_.name,
                            input |-> [k \in 1..Len(from_.inputs) |-> from_.inputs[k].name],
                            output |-> [k \in 1..Len(from_.outputs) |->
                                          from_.outputs[k].name],
                            node |-> Protos(nodes.list),
                            value_info |-> [k \in 1..Len(values) |->
                                serialize_value_into(Typed(from_, values[k]), <<>>)]])))

\* f"{function.domain}::{function.name}/{value_name}"
format_name(function, value_name) ==
    Chars(function.domain) \o ColonColon \o Chars(function.name) \o Slash \o Chars(value_name)

_serialize_experimental_value_info_for_function_ir9_into(graph_proto, function) ==
    Bind(SelectSeq(FunctionValues(function),
            LAMBDA v : /\ v.name # ""
                       /\ _should_create_value_info_for_value(Typed(function, v))),
         LAMBDA values :
            [graph_proto EXCEPT !.value_info = @ \o
                [k \in 1..Len(values) |->
                    serialize_value_into(Typed(function, values[k]),
                                         format_name(function, values[k].name))]])

\* for func in from_.functions.values(): the running model_proto after function k
RECURSIVE SerializeFunctions(_, _, _, _)
SerializeFunctions(functions, k, create_value_info_in_functions, model_proto) ==
    IF k > Len(functions) THEN Filled(model_proto)
    ELSE Then(serialize_function_into(functions[k], create_value_info_in_functions),
              LAMBDA func :
                 SerializeFunctions(functions, k + 1, create_value_info_in_functions,
                    [model_proto EXCEPT
                        !.functions = Append(@, func.proto),
                        !.graph = IF create_value_info_in_functions THEN @
                                  ELSE _serialize_experimental_value_info_for_function_ir9_into(
                                           @, functions[k])]))

serialize_model_into(from_) ==
    Then(serialize_graph_into(from_.graph),
         LAMBDA graph :
            SerializeFunctions(from_.functions, 1,
                from_.ir_version >= _FUNCTION_VALUE_INFO_SUPPORTED_VERSION,
                [ir_version |-> from_.ir_version,
                 opset_import |-> _serialize_opset_imports_into(from_.opset_imports),
                 metadata_props |-> IF from_.metadata_props # <<>>
                                    THEN _serialize_metadata_props_into(from_.metadata_props)
                                    ELSE <<>>,
                 graph |-> [input |-> graph.proto.input,
                            initializer |-> graph.proto.initializer,
                            node |-> graph.proto.node,
                            output |-> graph.proto.output,
                            value_info |-> <<>>],
                 functions |-> <<>>]))

\* {info.name: info for info in proto.value_info}: the last info of a name
ValueInfoOf(value_info, name) ==
    LET hits == {i \in 1..Len(value_info) : value_info[i].name = Chars(name)}
    IN IF hits = {} THEN "None"
       ELSE value_info[CHOOSE h \in hits : \A o \in hits : o <= h].type

deserialize_function(proto) ==
    Then(_deserialize_nodes(proto.node, 1, <<InputsByName(proto.input, <<>>)>>, <<>>, <<>>),
         LAMBDA nodes :
            IF \E k \in 1..Len(proto.output) :
                    proto.output[k] \notin DOMAIN nodes.scoped_values[1]
            THEN Raise("KeyError")
            ELSE [exc |-> "",
                  function |->
                    [domain |-> proto.domain,
                     name |-> proto.name,
                     overload |-> "",
                     inputs |-> [i \in 1..Len(proto.input) |->
                                    IrValue(proto.input[i], <<>>, "input", 0, i)],
                     outputs |-> [k \in 1..Len(proto.output) |->
                                    nodes.scoped_values[1][proto.output[k]]],
                     nodes |-> nodes.list,
                     info |-> [v \in {IrValue(proto.input[i], <<>>, "input", 0, i) :
                                        i \in 1..Len(proto.input)}
                                     \cup {NodeOutputs(nodes.list, 1)[i] :
                                            i \in 1..Len(NodeOutputs(nodes.list, 1))} |->
                                 IF v.kind = "output"
                                 THEN ValueInfoOf(proto.value_info, v.name)
                                 ELSE "None"]]])

NoneParsed == [domain |-> <<>>, name |-> <<>>, value_name |-> <<>>, parsed |-> FALSE]

_parse_experimental_function_value_info_name(name) ==
    Bind(Split(name, Slash),
         LAMBDA parts :
            IF Len(parts) # 2 THEN NoneParsed
            ELSE Bind(Split(parts[1], ColonColon),
                      LAMBDA function :
                         IF Len(function) # 2 THEN NoneParsed
                         ELSE [domain |-> function[1], name |-> function[2],
                               value_name |-> parts[2], parsed |-> TRUE]))

\* functions.get(function_id): the index of the function registered under the
\* identifier (domain, name, ""), 0 when there is none
FunctionById(functions, parsed) ==
    LET hits == {k \in 1..Len(functions) :
                    /\ Chars(functions[k].domain) = parsed.domain
                    /\ Chars(functions[k].name) = parsed.name
                    /\ functions[k].overload = ""}
    IN IF hits = {} THEN 0 ELSE CHOOSE h \in hits : \A o \in hits : o <= h

_deserialized_experimental_value_info_for_function_ir9(functions, value_info_protos) ==
    [k \in 1..Len(functions) |->
        [functions[k] EXCEPT !.info =
            [v \in DOMAIN functions[k].info |->
                Bind({i \in 1..Len(value_info_protos) :
                        Bind(_parse_experimental_function_value_info_name(
                                 value_info_protos[i].name),
                             LAMBDA parsed :
                                /\ parsed.parsed
                                /\ FunctionById(functions, parsed) = k
                                /\ parsed.value_name = Chars(v.name))},
                     LAMBDA hits :
                        IF hits = {} THEN functions[k].info[v]
                        ELSE value_info_protos[
                                CHOOSE h \in hits : \A o \in hits : o <= h].type)]]]

deserialize_model(proto) ==
    Then(_deserialize_graph(proto.graph, <<>>, <<>>),
         LAMBDA graph :
            Then(MapRaising(deserialize_function, proto.functions, <<>>),
                 LAMBDA functions :
                    [exc |-> "",
                     model |->
                       [ir_version |-> proto.ir_version,
                        graph |-> graph.graph,
                        functions |->
                          IF proto.ir_version < _FUNCTION_VALUE_INFO_SUPPORTED_VERSION
                          THEN _deserialized_experimental_value_info_for_function_ir9(
                                   [k \in 1..Len(functions.list) |->
                                       functions.list[k].function],
                                   proto.graph.value_info)
                          ELSE [k \in 1..Len(functions.list) |->
                                   functions.list[k].function]]]))

\* largest number of entries of an enumerated opset import or metadata mapping
MaxEntries == 2

\* a function of one input and one node, which reads the input
FunctionIr(domain, name, input, output) ==
    LET x == IrValue(input.name, <<>>, "input", 0, 1)
        y == IrValue(output.name, <<>>, "output", 1, 1)
    IN [domain |-> domain,
        name |-> name,
        overload |-> "",
        inputs |-> <<x>>,
        outputs |-> <<y>>,
        nodes |-> <<[inputs |-> <<x>>, attributes |-> <<>>, outputs |-> <<y>>]>>,
        info |-> [v \in {x, y} |-> IF v = x THEN input.info ELSE output.info]]

FirstFunctions ==
    {FunctionIr(domain, "f", input, output) :
        domain \in {"", "d"},
        input \in [name : {"v", "a/b"}, info : {"None", "T1"}],
        output \in [name : {"w", "w::x"}, info : {"None", "T2"}]}

SecondFunctions ==
    {FunctionIr("d", "g", [name |-> "v", info |-> "T2"], output) :
        output \in [name : {"w"}, info : {"None", "T1"}]}

\* Graph(inputs=(), outputs=(), nodes=())
MainGraph == [inputs |-> <<>>, outputs |-> <<>>, nodes |-> <<>>, initializers |-> <<>>]

\* the dicts of at most MaxEntries of the entries, in every insertion order
Dicts(entries) ==
    {dict \in UNION {[1..n -> entries] : n \in 0..MaxEntries} :
        \A i, j \in 1..Len(dict) : i # j => dict[i][1] # dict[j][1]}

OpsetImports == {<<"", 18>>, <<"ai", 3>>, <<"com", 1>>}
MetadataProps == {<<"k", "1">>, <<"ka", "2">>, <<"m", "3">>}

\* models with functions, for both sides of _FUNCTION_VALUE_INFO_SUPPORTED_VERSION
FunctionModels ==
    {[ir_version |-> ir_version, opset_imports |-> <<<<"", 18>>>>, metadata_props |-> <<>>,
      graph |-> MainGraph, functions |-> functions] :
        ir_version \in {9, 10},
        functions \in {<<>>} \cup {<<f>> : f \in FirstFunctions}
                             \cup {<<f, g>> : f \in FirstFunctions, g \in SecondFunctions}}

\* models that differ in the order their opset imports and metadata were inserted
ImportModels ==
    {[ir_version |-> 10, opset_imports |-> opset_imports, metadata_props |-> metadata_props,
      graph |-> MainGraph, functions |-> <<>>] :
        opset_imports \in Dicts(OpsetImports), metadata_props \in Dicts(MetadataProps)}

Models == FunctionModels \cup ImportModels

Message(descriptor, body, call) == [DESCRIPTOR |-> descriptor, body |-> body, call |-> call]

InitSerde ==
    /\ AttnIdle
    /\ GuardIdle
    /\ OptIdle
    /\ pc = "idle"
    /\ model = EmptyGraph
    /\ emitted = <<>>
    /\ reread = <<>>
    /\ \/ /\ \E g \in GraphProtos : message = Message("GraphProto", g, "deserialize_graph")
          /\ ir = <<>>
          /\ spc = "message"
       \/ /\ \E a \in AttributeProtos :
                message = Message("AttributeProto", a, "deserialize_attribute")
          /\ ir = <<>>
          /\ spc = "message"
       \/ /\ message = Message("AttributeProto", DefaultAttributeProto, "serialize_attribute")
          /\ ir \in ConstructedAttrs
          /\ spc = "ir"
       \/ /\ \E t \in TensorProtos :
                \E call \in {"deserialize_tensor"}
                                \cup {SpecializedClasses[i] : i \in 1..Len(SpecializedClasses)} :
                    message = Message("TensorProto", t, call)
          /\ ir = <<>>
          /\ spc = "message"
       \/ /\ message = Message("ModelProto", <<>>, "serialize_model")
          /\ ir \in Models
          /\ spc = "ir"

\* the caller keeps what the deserializer returned, or sees its exception
Deserialized(r) ==
    /\ ir' = Result(r)
    /\ spc' = IF Returned(r) THEN "ir" ELSE "raised"
    /\ UNCHANGED <<message, emitted, reread, guardVars, optVars, attnVars>>

Serialized(r) ==
    /\ emitted' = r
    /\ spc' = "emitted"
    /\ UNCHANGED <<message, ir, reread, guardVars, optVars, attnVars>>

DeserializeGraph ==
    /\ spc = "message"
    /\ message.call = "deserialize_graph"
    /\ \E r \in {deserialize_graph(message.body)} : Deserialized(r)

SerializeGraph ==
    /\ spc = "ir"
    /\ message.DESCRIPTOR = "GraphProto"
    /\ \E r \in {serialize_graph_into(ir.graph)} : Serialized(r)

DeserializeAttribute ==
    /\ spc = "message"
    /\ message.call = "deserialize_attribute"
    /\ \E r \in {deserialize_attribute(message.body)} : Deserialized(r)

\* serialize_attribute, or serialize_reference_attribute_into for a RefAttr
SerializeAttribute ==
    /\ spc = "ir"
    /\ message.DESCRIPTOR = "AttributeProto"
    /\ \E r \in {SerializeAttr(ir)} : Serialized(r)

DeserializeTensor ==
    /\ spc = "message"
    /\ message.call = "deserialize_tensor"
    /\ \E r \in {deserialize_tensor(message.body)} : Deserialized(r)

\* the caller constructs a specialized tensor class on the message
ConstructSpecializedTensor ==
    /\ spc = "message"
    /\ message.DESCRIPTOR = "TensorProto"
    /\ message.call # "deserialize_tensor"
    /\ \E r \in {SpecializedTensor(message.call, message.body)} : Deserialized(r)

SerializeTensor ==
    /\ spc = "ir"
    /\ message.DESCRIPTOR = "TensorProto"
    /\ \E r \in {Filled(serialize_tensor_into(ir))} : Serialized(r)

SerializeModel ==
    /\ spc = "ir"
    /\ message.DESCRIPTOR = "ModelProto"
    /\ \E r \in {serialize_model_into(ir)} : Serialized(r)

\* deserialize_model on the message serialize_model returned
DeserializeModel ==
    /\ spc = "emitted"
    /\ message.DESCRIPTOR = "ModelProto"
    /\ Returned(emitted)
    /\ \E r \in {deserialize_model(emitted.proto)} :
            /\ reread' = Result(r)
            /\ spc' = "reread"
    /\ UNCHANGED <<message, ir, emitted, guardVars, optVars, attnVars>>

NextSerde ==
    \/ DeserializeGraph
    \/ SerializeGraph
    \/ DeserializeAttribute
    \/ SerializeAttribute
    \/ DeserializeTensor
    \/ ConstructSpecializedTensor
    \/ SerializeTensor
    \/ SerializeModel
    \/ DeserializeModel

SpecSerde == InitSerde /\ [][NextSerde]_vars

(***************************************************************************)
(* The scopes of a graph message and of the graph deserialized from it     *)
(***************************************************************************)
\* the graphs an attribute message holds
ProtoGraphsOf(a) ==
    IF a.ref_attr_name # "" THEN <<>>
    ELSE IF a.type = "GRAPH" THEN <<a.g>>
    ELSE IF a.type = "GRAPHS" THEN a.graphs
    ELSE <<>>

\* the graphs an attribute of the IR holds
IrGraphsOf(a) ==
    IF a.cls # "Attr" THEN <<>>
    ELSE IF a.type = "GRAPH" THEN <<a.value>>
    ELSE IF a.type = "GRAPHS" THEN a.value
    ELSE <<>>

\* the places of the graphs nested in g, g itself at <<>>: a nested graph is
\* reached by node index, attribute index and index in the attribute
RECURSIVE ScopesOf(_)
ScopesOf(g) ==
    {<<>>} \cup
    UNION {UNION {UNION {{<<n, k, j>> \o p :
                            p \in ScopesOf(ProtoGraphsOf(g.node[n].attribute[k])[j])} :
                         j \in 1..Len(ProtoGraphsOf(g.node[n].attribute[k]))} :
                  k \in 1..Len(g.node[n].attribute)} :
           n \in 1..Len(g.node)}

RECURSIVE ProtoGraphAt(_, _)
ProtoGraphAt(g, scope) ==
    IF scope = <<>> THEN g
    ELSE ProtoGraphAt(ProtoGraphsOf(g.node[scope[1]].attribute[scope[2]])[scope[3]],
                      SubSeq(scope, 4, Len(scope)))

RECURSIVE IrGraphAt(_, _)
IrGraphAt(graph, scope) ==
    IF scope = <<>> THEN graph
    ELSE IrGraphAt(IrGraphsOf(graph.nodes[scope[1]].attributes[scope[2]])[scope[3]],
                   SubSeq(scope, 4, Len(scope)))

\* every node of the message: the scope of its graph and its position there
NodePlaces(g) ==
    UNION {{<<scope, n>> : n \in 1..Len(ProtoGraphAt(g, scope).node)} : scope \in ScopesOf(g)}

\* a graph message was accepted / accepted and written back
GraphDeserialized == message.DESCRIPTOR = "GraphProto" /\ spc \in {"ir", "emitted"}

GraphSerialized == message.DESCRIPTOR = "GraphProto" /\ spc = "emitted"

(***************************************************************************)
(* C12: a missing node input survives the round trip in place.  Each empty *)
(* input name "" of a node message becomes None at the same position of    *)
(* the deserialized node, every other name becomes a Value, each None is   *)
(* written back as "", and the serialized node has the input names of the  *)
(* message in the same number and order.                                   *)
(***************************************************************************)
C12_MissingInputRoundTrip ==
    /\ GraphDeserialized =>
          \A place \in NodePlaces(message.body) :
              LET names == ProtoGraphAt(message.body, place[1]).node[place[2]].input
                  inputs == IrGraphAt(ir.graph, place[1]).nodes[place[2]].inputs
              IN /\ Len(inputs) = Len(names)
                 /\ \A k \in 1..Len(names) :
                        /\ (names[k] = "") <=> (inputs[k] = None)
                        /\ names[k] # "" => inputs[k].name = names[k]
    /\ GraphSerialized =>
          /\ Returned(emitted)
          /\ \A place \in NodePlaces(message.body) :
              LET names == ProtoGraphAt(message.body, place[1]).node[place[2]].input
                  inputs == IrGraphAt(ir.graph, place[1]).nodes[place[2]].inputs
                  written == ProtoGraphAt(emitted.proto, place[1]).node[place[2]].input
              IN /\ written = names
                 /\ \A k \in 1..Len(inputs) : (inputs[k] = None) <=> (written[k] = "")

\* a node with a missing input between two present ones went through the round trip
C12_MissingInputInTheMiddle ==
    /\ GraphSerialized
    /\ Len(message.body.node) = 1
    /\ message.body.node[1].input = <<"x", "", "x">>
    /\ ir.graph.nodes[1].inputs[2] = None
    /\ ir.graph.nodes[1].inputs[3] # None
    /\ emitted.proto.node[1].input = <<"x", "", "x">>

(***************************************************************************)
(* What a node of a graph message can refer to, read off the message       *)
(***************************************************************************)
\* the scopes that enclose a scope, itself included
Prefixes(scope) == {SubSeq(scope, 1, 3 * m) : m \in 0..(Len(scope) \div 3)}

\* the position in the graph at q of the node at position n of the graph at
\* scope, or of the node of q that holds that graph
PositionIn(scope, n, q) == IF q = scope THEN n ELSE scope[Len(q) + 1]

\* the names the graph at q defines by an input, an initializer or the output
\* of a node before position pos
DefinedBefore(g, q, pos) ==
    LET at == ProtoGraphAt(g, q)
    IN {at.input[i] : i \in 1..Len(at.input)}
         \cup {at.initializer[i].name : i \in 1..Len(at.initializer)}
         \cup UNION {{at.node[n].output[k] : k \in 1..Len(at.node[n].output)} :
                        n \in 1..(pos - 1)}

\* the scopes in which the node at place finds the name defined before it
VisibleDefinitions(g, place, name) ==
    {q \in Prefixes(place[1]) :
        name \in DefinedBefore(g, q, PositionIn(place[1], place[2], q))}

\* the k-th input of the node at place, in the message and in the IR
NameAt(place, k) == ProtoGraphAt(message.body, place[1]).node[place[2]].input[k]

InputAt(place, k) == IrGraphAt(ir.graph, place[1]).nodes[place[2]].inputs[k]

\* the input slots of the message that carry a name
UsePlaces(g) ==
    UNION {{<<place, k>> :
                k \in {j \in 1..Len(ProtoGraphAt(g, place[1]).node[place[2]].input) :
                          ProtoGraphAt(g, place[1]).node[place[2]].input[j] # ""}} :
           place \in NodePlaces(g)}

(***************************************************************************)
(* C13: scope visibility is strictly nested.  In every accepted graph a    *)
(* node input is resolved to a Value created in the node's own scope or in *)
(* a scope that encloses it, never in a subgraph of an earlier node or in  *)
(* a sibling subgraph, and among the scopes that define the name it is the *)
(* innermost one that is used.                                             *)
(***************************************************************************)
C13_ScopesStrictlyNested ==
    GraphDeserialized =>
        \A use \in UsePlaces(message.body) :
            LET v == InputAt(use[1], use[2])
                visible == VisibleDefinitions(message.body, use[1], NameAt(use[1], use[2]))
            IN /\ v.name = NameAt(use[1], use[2])
               /\ v.scope \in visible
               /\ \A q \in visible : Len(q) <= Len(v.scope)

\* a node two subgraphs deep read "x": the innermost graph does not define it,
\* the graph around it does by an initializer, the outermost by its input, and
\* the node got the initializer's Value
C13_ResolvedInMiddleScope ==
    /\ GraphDeserialized
    /\ \E use \in UsePlaces(message.body) :
          /\ Len(use[1][1]) = 6
          /\ NameAt(use[1], use[2]) = "x"
          /\ InputAt(use[1], use[2]).scope = SubSeq(use[1][1], 1, 3)
          /\ InputAt(use[1], use[2]).kind = "initializer"
          /\ <<>> \in VisibleDefinitions(message.body, use[1], "x")

(***************************************************************************)
(* C14: definition before use.  In every accepted graph each non-empty     *)
(* node input is a graph input, an initializer or an output of a node that *)
(* comes earlier in definition order, in the node's scope or an enclosing  *)
(* one.  A message in which some input name is defined by none of these,   *)
(* a forward reference included, is rejected with ValueError.              *)
(***************************************************************************)
\* some node input names nothing that is defined before the node
HasDanglingInput(g) ==
    \E use \in UsePlaces(g) :
        VisibleDefinitions(g, use[1],
            ProtoGraphAt(g, use[1][1]).node[use[1][2]].input[use[2]]) = {}

\* every graph of the message declares as outputs only names it defines itself
OutputsLocal(g) ==
    \A q \in ScopesOf(g) :
        \A k \in 1..Len(ProtoGraphAt(g, q).output) :
            ProtoGraphAt(g, q).output[k]
                \in DefinedBefore(g, q, Len(ProtoGraphAt(g, q).node) + 1)

\* each input of an accepted graph is defined before the node that reads it
InputsDefinedEarlier ==
    GraphDeserialized =>
        \A use \in UsePlaces(message.body) :
            LET v == InputAt(use[1], use[2])
            IN /\ v.scope \in Prefixes(use[1][1])
               /\ \/ v.kind \in {"input", "initializer"}
                  \/ /\ v.kind = "output"
                     /\ v.node < PositionIn(use[1][1], use[1][2], v.scope)

C14_DefinitionBeforeUse ==
    message.DESCRIPTOR = "GraphProto" =>
        /\ InputsDefinedEarlier
        /\ HasDanglingInput(message.body) /\ spc # "message" =>
              /\ spc = "raised"
              /\ ir.exc = "ValueError"

\* the part of C14 that does not depend on how declared outputs are looked up:
\* a dangling input is always rejected, with ValueError when every graph of
\* the message declares as outputs only names it defines itself
DanglingInputRejected ==
    message.DESCRIPTOR = "GraphProto" =>
        /\ InputsDefinedEarlier
        /\ HasDanglingInput(message.body) /\ spc # "message" =>
              /\ spc = "raised"
              /\ OutputsLocal(message.body) => ir.exc = "ValueError"

(***************************************************************************)
(* C15: single assignment.  In every accepted graph each value name is     *)
(* defined at most once per scope, by one graph input, one initializer     *)
(* value or one node output, so that a name read by a consumer identifies  *)
(* one producer whatever the position of the consumer.                     *)
(***************************************************************************)
\* the Values the graph at q of the accepted graph defines
DefinedValues(q) ==
    LET at == IrGraphAt(ir.graph, q)
        msg == ProtoGraphAt(message.body, q)
    IN {at.inputs[i] : i \in 1..Len(at.inputs)}
         \cup {IrValue(msg.initializer[i].name, q, "initializer", 0, i) :
                  i \in {j \in 1..Len(msg.initializer) :
                            \A l \in 1..Len(msg.input) :
                                msg.input[l] # msg.initializer[j].name}}
         \cup UNION {{at.nodes[n].outputs[k] : k \in 1..Len(at.nodes[n].outputs)} :
                        n \in 1..Len(at.nodes)}

C15_SingleAssignment ==
    GraphDeserialized =>
        \A q \in ScopesOf(message.body) :
            \A v1 \in DefinedValues(q), v2 \in DefinedValues(q) :
                v1.name = v2.name => v1 = v2

(***************************************************************************)
(* C16: declared outputs.  A graph message whose node inputs are all       *)
(* defined before use and whose graphs declare as outputs only names that  *)
(* are defined in the graph itself or passed in from an enclosing scope is *)
(* accepted, and each declared output of each of its graphs is, in the     *)
(* declared order, the Value of that name defined in the graph or in an    *)
(* enclosing scope.                                                        *)
(***************************************************************************)
\* every declared output names something the graph defines or can read
OutputsReachable(g) ==
    \A q \in ScopesOf(g) :
        \A k \in 1..Len(ProtoGraphAt(g, q).output) :
            VisibleDefinitions(g, <<q, Len(ProtoGraphAt(g, q).node) + 1>>,
                               ProtoGraphAt(g, q).output[k]) # {}

C16_DeclaredOutputs ==
    /\ message.DESCRIPTOR = "GraphProto"
    /\ spc # "message"
    /\ ~HasDanglingInput(message.body)
    /\ OutputsReachable(message.body)
    => /\ GraphDeserialized
       /\ \A q \in ScopesOf(message.body) :
            LET declared == ProtoGraphAt(message.body, q).output
                outputs == IrGraphAt(ir.graph, q).outputs
            IN /\ Len(outputs) = Len(declared)
               /\ \A k \in 1..Len(declared) :
                    /\ outputs[k].name = declared[k]
                    /\ outputs[k].scope \in Prefixes(q)
                    /\ outputs[k].scope = q => outputs[k] \in DefinedValues(q)

(***************************************************************************)
(* C17: attributes are a closed tagged union.  An attribute message of one *)
(* of the ten supported kinds is accepted, the attribute has the message's *)
(* name and kind, and serializing it gives back the message: name, kind    *)
(* and value.  A message with a ref_attr_name becomes a RefAttr whatever   *)
(* its kind and is written back with the same name, ref_attr_name and      *)
(* kind.  A message of any other kind raises ValueError, and serializing   *)
(* an attribute of any other kind raises TypeError; neither yields an      *)
(* attribute.                                                              *)
(***************************************************************************)
\* the round trip of a message without ref_attr_name of a supported kind
SupportedKindRoundTrip ==
    /\ spc \in {"ir", "emitted"}
    /\ ir.cls = "Attr"
    /\ ir.name = message.body.name
    /\ ir.type = message.body.type
    /\ spc = "emitted" => Returned(emitted) /\ emitted.proto = message.body

\* the round trip of a message with a ref_attr_name
ReferenceRoundTrip ==
    /\ spc \in {"ir", "emitted"}
    /\ ir.cls = "RefAttr"
    /\ ir.name = message.body.name
    /\ ir.type = message.body.type
    /\ ir.ref_attr_name = message.body.ref_attr_name
    /\ spc = "emitted" =>
          /\ Returned(emitted)
          /\ emitted.proto.name = message.body.name
          /\ emitted.proto.type = message.body.type
          /\ emitted.proto.ref_attr_name = message.body.ref_attr_name

TensorsAccepted(a) ==
    /\ a.type = "TENSOR" => Returned(deserialize_tensor(a.t))
    /\ a.type = "TENSORS" =>
          \A k \in 1..Len(a.tensors) : Returned(deserialize_tensor(a.tensors[k]))

ClassesFor(dt) ==
    {SpecializedClasses[i] : i \in {j \in 1..Len(SpecializedClasses) :
                                       dt \in compatible_types(SpecializedClasses[j])}}

C18_TensorPriority ==
    /\ \A i \in 1..Len(SpecializedClasses), j \in 1..Len(SpecializedClasses) :
          i # j => compatible_types(SpecializedClasses[i])
                      \cap compatible_types(SpecializedClasses[j]) = {}
    /\ message.call = "deserialize_tensor" /\ spc # "message" =>
          IF message.body.data_location = "EXTERNAL"
          THEN /\ spc \in {"ir", "emitted"}
               /\ ir.cls = "ExternalTensor"
               /\ ir.path = message.body.external_data.location
               /\ ir.offset = message.body.external_data.offset
               /\ ir.length = message.body.external_data.length
          ELSE IF message.body.has_raw_data
          THEN /\ spc \in {"ir", "emitted"}
               /\ ir.cls = "TensorProtoTensor"
               /\ ir.raw = message.body
          ELSE IF ClassesFor(message.body.data_type) # {}
          THEN /\ spc \in {"ir", "emitted"}
               /\ ClassesFor(message.body.data_type) = {ir.cls}
               /\ ir.raw = message.body
          ELSE spc = "raised" /\ ir.exc = "ValueError"
    /\ message.DESCRIPTOR = "TensorProto" /\ message.call # "deserialize_tensor"
            /\ spc # "message" =>
          IF message.body.data_type \in compatible_types(message.call)
          THEN spc \in {"ir", "emitted"} /\ ir.cls = message.call
          ELSE spc = "raised" /\ ir.exc = "ValueError"

\* a tensor with the external data location and raw_data became an ExternalTensor
C18_ExternalBeforeRawData ==
    /\ message.call = "deserialize_tensor"
    /\ spc = "ir"
    /\ message.body.data_location = "EXTERNAL"
    /\ message.body.has_raw_data
    /\ message.body.data_type = "STRING"
    /\ ir.cls = "ExternalTensor"
    /\ ir.path = "w.bin"

(***************************************************************************)
(* C19: value info of functions, below and from IR version 10              *)
(***************************************************************************)
ModelSerialized ==
    /\ spc \in {"emitted", "reread"}
    /\ message.DESCRIPTOR = "ModelProto"
    /\ Returned(emitted)

\* the function values that have a shape or a type
TypedValues(function) ==
    SelectSeq(FunctionValues(function), LAMBDA v : function.info[v] # "None")

\* the entries serialize_model is to write for a function, under the given names
ValueInfos(function, Name(_)) ==
    [k \in 1..Len(TypedValues(function)) |->
        [name |-> Name(TypedValues(function)[k].name),
         type |-> function.info[TypedValues(function)[k]]]]

RECURSIVE Concat(_)
Concat(lists) == IF lists = <<>> THEN <<>> ELSE Head(lists) \o Concat(Tail(lists))

\* below IR version 10 the main graph holds the entries of all functions under
\* their qualified names, and no FunctionProto holds any
WrittenToMainGraph ==
    ModelSerialized /\ ir.ir_version < 10 =>
        /\ emitted.proto.graph.value_info =
             Concat([k \in 1..Len(ir.functions) |->
                        ValueInfos(ir.functions[k],
                            LAMBDA value_name :
                                Chars(ir.functions[k].domain) \o <<58, 58>>
                                    \o Chars(ir.functions[k].name) \o <<47>>
                                    \o Chars(value_name))])
        /\ \A k \in 1..Len(ir.functions) : emitted.proto.functions[k].value_info = <<>>

\* from IR version 10 on every FunctionProto holds its own entries and the main
\* graph gets none
WrittenToFunctions ==
    ModelSerialized /\ ir.ir_version >= 10 =>
        /\ emitted.proto.graph.value_info = <<>>
        /\ \A k \in 1..Len(ir.functions) :
              emitted.proto.functions[k].value_info = ValueInfos(ir.functions[k], Chars)

\* below IR version 10 the function values read back have the shape and type
\* they had in the model that was serialized
RestoredFromMainGraph ==
    spc = "reread" /\ ir.ir_version < 10 =>
        /\ Returned(reread)
        /\ Len(reread.model.functions) = Len(ir.functions)
        /\ \A k \in 1..Len(ir.functions) :
              \A v \in DOMAIN ir.functions[k].info :
                  reread.model.functions[k].info[v] = ir.functions[k].info[v]

\* C19: below IR version 10 serialize_model writes the shape/type of every
\* function input and node output that has one into graph.value_info under
\* "{function_domain}::{function_name}/{value_name}" and none into the
\* FunctionProto, and deserialize_model restores it onto the function value of
\* that name, for every function and every value name; from IR version 10 the
\* value info is written into the FunctionProto and none into the main graph.
C19_FunctionValueInfoRoundTrip ==
    /\ WrittenToMainGraph
    /\ WrittenToFunctions
    /\ RestoredFromMainGraph

\* the same round trip, for the value names that hold no "/"
RestoredWithoutSlash ==
    spc = "reread" /\ ir.ir_version < 10 =>
        /\ Returned(reread)
        /\ \A k \in 1..Len(ir.functions) :
              \A v \in DOMAIN ir.functions[k].info :
                  Len(Split(Chars(v.name), Slash)) = 1 =>
                      reread.model.functions[k].info[v] = ir.functions[k].info[v]

(***************************************************************************)
(* C20: the order of the emitted opset imports and metadata properties     *)
(***************************************************************************)
\* the names of a sequence of entries increase strictly
SortedByName(names) ==
    \A i \in 1..(Len(names) - 1) : LexLess(Chars(names[i]), Chars(names[i + 1]))

\* two dicts hold the same items, whatever the order they were inserted in
SameItems(a, b) == {a[k] : k \in 1..Len(a)} = {b[k] : k \in 1..Len(b)}

MetadataPropsSorted ==
    ModelSerialized =>
        /\ SortedByName([k \in 1..Len(emitted.proto.metadata_props) |->
                            emitted.proto.metadata_props[k].key])
        /\ \A other \in Dicts(MetadataProps) :
              SameItems(other, ir.metadata_props) =>
                  serialize_model_into([ir EXCEPT !.metadata_props = other])
                      .proto.metadata_props = emitted.proto.metadata_props

OpsetImportsSorted ==
    ModelSerialized =>
        /\ SortedByName([k \in 1..Len(emitted.proto.opset_import) |->
                            emitted.proto.opset_import[k].domain])
        /\ \A other \in Dicts(OpsetImports) :
              SameItems(other, ir.opset_imports) =>
                  serialize_model_into([ir EXCEPT !.opset_imports = other])
                      .proto.opset_import = emitted.proto.opset_import

\* C20: opset imports and metadata properties are emitted sorted by name, so
\* two models holding the same opset imports and the same metadata properties,
\* inserted in different orders, serialize to the same sequences of entries.
C20_InsertionOrderIrrelevant ==
    /\ OpsetImportsSorted
    /\ MetadataPropsSorted

(***************************************************************************)
(* C21: the groups attribute of the deferred replacement                   *)
(***************************************************************************)
\* the GroupNorm nodes of the replacement that was built
GroupNormNodes ==
    {i \in 1..Len(model.nodes) :
        model.nodes[i].domain = "com.microsoft" /\ model.nodes[i].op_type = "GroupNorm"}

\* the literal of an attribute of a node
AttrOf(node, name) == (CHOOSE a \in node.attrs : a[1] = name)[2]

\* C21: the deferred replacement of the instance-norm rule is run on the raw
\* bindings of an accepted match, does not raise, and gives the one GroupNorm
\* node it builds groups = weight_for_norm.shape[0], which is the g of the
\* constant adjusted_input_shape [0, g, -1].
C21_GroupsFromWeightForNorm ==
    gkind = "instnorm" /\ pc # "idle" =>
        /\ pc = "replaced"
        /\ ret = "True"
        /\ Cardinality(GroupNormNodes) = 1
        /\ \A i \in GroupNormNodes :
              /\ AttrOf(model.nodes[i], "groups") = bindings0.weight_for_norm.shape.dims[1]
              /\ bindings0.adjusted_input_shape.value_as_np_array
                    = Array1D(<<0, AttrOf(model.nodes[i], "groups"), -1>>)

\* a replacement was built for a match of two groups over four channels
C21_TwoGroupsOfFourChannels ==
    /\ gkind = "instnorm"
    /\ pc = "replaced"
    /\ bindings0.input_x.shape = Shape(<<1, 4, 2, 2>>)
    /\ bindings0.weight_for_norm.shape = Shape(<<2>>)
    /\ \E i \in GroupNormNodes : AttrOf(model.nodes[i], "groups") = 2

(***************************************************************************)
(* C22: the conditions of check_if_simulated_instance_norm_is_used         *)
(***************************************************************************)
\* the six conditions of the docstring, on the bindings the guard was called on
SixConditions ==
    LET b == bindings0
        dims(v) == b[v].shape.dims
        array(v) == b[v].value_as_np_array
    IN /\ array("weight_for_norm").tag = "ndarray"
       /\ \A i \in 1..Len(array("weight_for_norm").data) :
             array("weight_for_norm").data[i] = 1
       /\ array("bias_for_norm").tag = "ndarray"
       /\ \A i \in 1..Len(array("bias_for_norm").data) : array("bias_for_norm").data[i] = 0
       /\ b.input_x.shape.tag = "list"
       /\ b.weight_full.shape.tag = "list" /\ Len(dims("weight_full")) = Len(dims("input_x")) - 1
       /\ b.bias_full.shape.tag = "list" /\ Len(dims("bias_full")) = Len(dims("input_x")) - 1
       /\ Len(dims("input_x")) = 4
       /\ \A i \in 2..Len(dims("weight_full")) : dims("weight_full")[i] = 1
       /\ \A i \in 2..Len(dims("bias_full")) : dims("bias_full")[i] = 1
       /\ b.weight_for_norm.shape.tag = "list" /\ Len(dims("weight_for_norm")) >= 1
       /\ array("adjusted_input_shape") = Array1D(<<0, dims("weight_for_norm")[1], -1>>)
       /\ array("original_input_shape") = Array1D(dims("input_x"))

\* the constant value of one of the four constants the guard reads is unknown
UnknownConstant ==
    \E v \in {"weight_for_norm", "bias_for_norm", "adjusted_input_shape",
              "original_input_shape"} :
        bindings0[v].value_as_np_array.tag = "None"

\* the guard returns True only on bindings that meet the six conditions
TrueOnlyIfSixConditions ==
    gkind = "instnorm" /\ calls >= 1 /\ ret = "True" => SixConditions

\* C22: check_if_simulated_instance_norm_is_used returns True only if the six
\* documented conditions hold, and returns False, without raising, whenever the
\* constant value of weight_for_norm, bias_for_norm, adjusted_input_shape or
\* original_input_shape is unknown.
C22_SixConditionsAndUnknownRejected ==
    gkind = "instnorm" /\ calls >= 1 =>
        /\ ret = "True" => SixConditions
        /\ UnknownConstant => ret = "False"

\* an unknown constant is rejected when the shapes the guard reads first are known
UnknownRejectedOnKnownShapes ==
    /\ gkind = "instnorm" /\ calls >= 1 /\ UnknownConstant
    /\ bindings0.input_x.shape.tag = "list"
    /\ bindings0.weight_full.shape.tag = "list"
    /\ bindings0.bias_full.shape.tag = "list"
    /\ bindings0.weight_for_norm.shape.tag = "list"
    /\ Len(bindings0.weight_for_norm.shape.dims) >= 1
    => ret = "False"


(***************************************************************************)
(* C23: pattern and replacement parameter lists                            *)
(***************************************************************************)
\* the rewrite rules of broadcast_to_matmul, gemm_to_matmul_add and
\* instance_to_group_normalization
RulesOfTheThreeModules ==
    broadcast_to_matmul_rules
        \o <<gemm_to_matmul_add_rule, instance_norm_to_group_norm_rule>>

\* the replacement function has a parameter at exactly the positions of the
\* parameters of the pattern function
SamePositions(rule) == DOMAIN rule.replParams = DOMAIN rule.params

\* C23: every rewrite rule of broadcast_to_matmul, gemm_to_matmul_add and
\* instance_to_group_normalization has a replacement function with as many
\* parameters, at the same positions, as its pattern function, and no sweep
\* that applies a rule ends in the error of a binding-arity mismatch
C23_ReplacementArity ==
    /\ \A i \in 1..Len(RulesOfTheThreeModules) :
           /\ Len(RulesOfTheThreeModules[i].replParams)
                  = Len(RulesOfTheThreeModules[i].params)
           /\ SamePositions(RulesOfTheThreeModules[i])
    /\ hist.exc # "ValueError"

\* the Gemm rule, whose last parameter is shape_c in the pattern and shape_d in
\* the replacement, was applied and its replacement built
C23_GemmRuleBoundByPosition ==
    /\ gkind = "gemm"
    /\ Applied("gemm_to_matmul_add_rule")
    /\ gemm_to_matmul_add_rule.params[5] # gemm_to_matmul_add_rule.replParams[5]
    /\ hist.exc = ""
    /\ \E i \in 1..Len(model.nodes) : model.nodes[i].op_type = "Add"


(***************************************************************************)
(* SpecAttn: rewriter/onnxruntime/transformers/multihead_attention.py      *)
(***************************************************************************)
\* an onnx.FunctionProto as the rules read it: the names of its inputs and
\* outputs, and shapes, the shape of each value the rule can look up
FunctionProto(input, output, shapes) ==
    [input |-> input, output |-> output, shapes |-> shapes]

\* self.lookup(function, value_name): the ir value of that name, or None
lookup(fn, value_name) ==
    IF value_name \in DOMAIN fn.shapes
    THEN [none |-> FALSE, shape |-> fn.shapes[value_name]]
    ELSE [none |-> TRUE, shape |-> NoShape]

\* multihead_attention.py lines 62-67
AttnSizeConfig(num_attention_heads, num_key_value_heads, head_size, hidden_size) ==
    [num_attention_heads |-> num_attention_heads,
     num_key_value_heads |-> num_key_value_heads,
     head_size |-> head_size,
     hidden_size |-> hidden_size]

\* the sizes with num_attention_heads taken from the shape of present_value
SizesFromShapesHeadsOfCache(present_value_shape, attn_output_shape) ==
    IF Len(present_value_shape) < 4 THEN [exc |-> "IndexError"]
    ELSE IF Len(attn_output_shape) < 3 THEN [exc |-> "IndexError"]
    ELSE IF present_value_shape[4] = 0 THEN [exc |-> "ZeroDivisionError"]
    ELSE [exc |-> "",
          config |-> [num_attention_heads |-> present_value_shape[2],
                      num_key_value_heads |-> present_value_shape[2],
                      head_size |-> present_value_shape[4],
                      hidden_size |-> attn_output_shape[3]]]

\* lines 85-94: the sizes read from the two shapes; shape[3] and shape[2] need
\* that many dimensions, and // a divisor other than 0
SizesFromShapes(present_value_shape, attn_output_shape) ==
    IF Len(present_value_shape) < 4 THEN Raise("IndexError")
    ELSE IF Len(attn_output_shape) < 3 THEN Raise("IndexError")
    ELSE IF present_value_shape[4] = 0 THEN Raise("ZeroDivisionError")
    ELSE [exc |-> "",
          config |-> AttnSizeConfig(attn_output_shape[3] \div present_value_shape[4],
                                    present_value_shape[2],
                                    present_value_shape[4],
                                    attn_output_shape[3])]

\* AttentionRewriteRule.infer_attn_size_config, lines 70-94
infer_attn_size_config(fn) ==
    IF Len(fn.output) # 3 THEN Raise("FunctionRewriteError")
    ELSE Bind(lookup(fn, fn.output[1]),
              LAMBDA present_value_ir :
                IF present_value_ir.none \/ present_value_ir.shape.tag = "None"
                THEN Raise("FunctionRewriteError")
                ELSE Bind(lookup(fn, fn.output[3]),
                          LAMBDA attn_output_ir :
                            IF attn_output_ir.none \/ attn_output_ir.shape.tag = "None"
                            THEN Raise("FunctionRewriteError")
                            ELSE SizesFromShapes(present_value_ir.shape.dims,
                                                 attn_output_ir.shape.dims)))

\* ---- the nodes of the functions the fusion methods write with onnxscript
\* q, k and v: MatMul(hidden_states, Transpose(x_proj_weight, [1, 0]))
Projection(weight, out) ==
    <<Node("", "Transpose", <<weight>>, <<weight \o "_t">>, {<<"perm", <<1, 0>>>>}),
      Node("", "MatMul", <<"hidden_states", weight \o "_t">>, <<out>>, {})>>

Projections ==
    Projection("q_proj_weight", "q") \o Projection("k_proj_weight", "k")
        \o Projection("v_proj_weight", "v")

\* op.Slice(data, [0], cos_sin_gather_size, [1])
SliceOfCache(data, out, cos_sin_gather_size) ==
    <<Node("", "Slice", <<data>>, <<out>>,
           {<<"starts", <<0>>>>, <<"ends", cos_sin_gather_size>>, <<"axes", <<1>>>>})>>

\* cos and sin of the 4-D caches [1, 1, seq_len, head_size]: squeezed, then sliced
CosSinOf4dCache(cos_sin_gather_size) ==
    <<Node("", "Squeeze", <<"cos_cached">>, <<"cos_squeezed">>, {<<"axes", <<0, 1>>>>})>>
        \o SliceOfCache("cos_squeezed", "cos", cos_sin_gather_size)
        \o <<Node("", "Squeeze", <<"sin_cached">>, <<"sin_squeezed">>,
                  {<<"axes", <<0, 1>>>>})>>
        \o SliceOfCache("sin_squeezed", "sin", cos_sin_gather_size)

\* cos and sin of the 2-D caches [seq_len, head_size]
CosSinOf2dCache(cos_sin_gather_size) ==
    SliceOfCache("cos_cached", "cos", cos_sin_gather_size)
        \o SliceOfCache("sin_cached", "sin", cos_sin_gather_size)

\* lines 486-501: cos and sin computed from inv_freq
CosSinOfInvFreq(cos_sin_gather_size) ==
    <<Node("", "Shape", <<"hidden_states">>, <<"hidden_states_shape">>, {}),
      Node("", "Slice", <<"hidden_states_shape">>, <<"seq_len">>,
           {<<"starts", <<1>>>>, <<"ends", <<2>>>>, <<"axes", <<0>>>>}),
      Node("", "Squeeze", <<"seq_len">>, <<"seq_len_scalar">>, {<<"axes", <<0>>>>}),
      Node("", "Range", <<"seq_len_scalar">>, <<"range">>,
           {<<"start", 0>>, <<"delta", 1>>}),
      Node("", "Cast", <<"range">>, <<"range_float">>, {<<"to", 1>>}),
      Node("", "Unsqueeze", <<"range_float">>, <<"t">>, {<<"axes", <<1>>>>}),
      Node("", "Unsqueeze", <<"inv_freq">>, <<"inv_freq_row">>, {<<"axes", <<0>>>>}),
      Node("", "Cast", <<"inv_freq_row">>, <<"inv_freq_float">>, {<<"to", 1>>}),
      Node("", "MatMul", <<"t", "inv_freq_float">>, <<"freqs">>, {}),
      Node("", "Concat", <<"freqs", "freqs">>, <<"emb">>, {<<"axis", -1>>}),
      Node("", "Cos", <<"emb">>, <<"cos_emb">>, {}),
      Node("", "CastLike", <<"cos_emb", "hidden_states">>, <<"cos_like">>, {}),
      Node("", "Sin", <<"emb">>, <<"sin_emb">>, {}),
      Node("", "CastLike", <<"sin_emb", "hidden_states">>, <<"sin_like">>, {})>>
        \o SliceOfCache("cos_like", "cos", cos_sin_gather_size)
        \o SliceOfCache("sin_like", "sin", cos_sin_gather_size)

\* msft_op.RotaryEmbedding(x, position_id, cos, sin, interleaved=False) for q and k
RotaryEmbeddings ==
    <<Node("com.microsoft", "RotaryEmbedding", <<"q", "position_id", "cos", "sin">>,
           <<"q_rope">>, {<<"interleaved", 0>>}),
      Node("com.microsoft", "RotaryEmbedding", <<"k", "position_id", "cos", "sin">>,
           <<"k_rope">>, {<<"interleaved", 0>>})>>

\* attn_output = op.MatMul(attention output, op.Transpose(o_proj_weight, [1, 0]))
OutputProjection(attention_output) ==
    <<Node("", "Transpose", <<"o_proj_weight">>, <<"o_proj_weight_t">>,
           {<<"perm", <<1, 0>>>>}),
      Node("", "MatMul", <<attention_output, "o_proj_weight_t">>, <<"attn_output">>, {})>>

\* lines 153-167: the mask expanded to the heads, MultiHeadAttention and the
\* output projection
MultiHeadAttention(config) ==
    <<Node("", "Expand", <<"attention_mask">>, <<"expanded_mask">>,
           {<<"shape", <<1, config.num_attention_heads, 1, 1>>>>}),
      Node("com.microsoft", "MultiHeadAttention",
           <<"q_rope", "k_rope", "v", "", "", "expanded_mask">>,
           <<"mha_output", "present_key", "present_value">>,
           {<<"num_heads", config.num_attention_heads>>})>>
        \o OutputProjection("mha_output")

\* lines 288-309: the sequence lengths, GroupQueryAttention and the output
\* projection
GroupQueryAttention(config) ==
    <<Node("", "Shape", <<"hidden_states">>, <<"shape_for_batch">>, {}),
      Node("", "Slice", <<"shape_for_batch">>, <<"batch_size">>,
           {<<"starts", <<0>>>>, <<"ends", <<1>>>>, <<"axes", <<0>>>>}),
      Node("", "Shape", <<"hidden_states">>, <<"shape_for_sequence">>, {}),
      Node("", "Slice", <<"shape_for_sequence">>, <<"sequence_length">>,
           {<<"starts", <<1>>>>, <<"ends", <<2>>>>, <<"axes", <<0>>>>}),
      Node("", "ConstantOfShape", <<"batch_size">>, <<"past_seq_lengths">>,
           {<<"value", <<0>>>>}),
      Node("", "Cast", <<"sequence_length">>, <<"total_seq_lengths">>, {<<"to", 6>>}),
      Node("com.microsoft", "GroupQueryAttention",
           <<"q_rope", "k_rope", "v", "", "", "past_seq_lengths", "total_seq_lengths">>,
           <<"gqa_output", "present_key", "present_value">>,
           {<<"kv_num_heads", config.num_key_value_heads>>,
            <<"num_heads", config.num_attention_heads>>})>>
        \o OutputProjection("gqa_output")

\* lines 569-600: the nodes of phi_attention
PhiAttention(config) ==
    <<Node("", "Concat", <<"q_proj_weight", "k_proj_weight", "v_proj_weight">>,
           <<"qkv_weight_rows">>, {<<"axis", 0>>}),
      Node("", "Transpose", <<"qkv_weight_rows">>, <<"qkv_weight">>,
           {<<"perm", <<1, 0>>>>}),
      Node("", "Concat", <<"q_proj_bias", "k_proj_bias", "v_proj_bias">>,
           <<"qkv_bias">>, {<<"axis", 0>>}),
      Node("", "Shape", <<"hidden_states">>, <<"hidden_states_shape">>, {}),
      Node("", "Slice", <<"hidden_states_shape">>, <<"attention_mask_shape">>,
           {<<"starts", <<0>>>>, <<"ends", <<2>>>>, <<"axes", <<0>>>>}),
      Node("", "ConstantOfShape", <<"attention_mask_shape">>, <<"attention_mask_2d">>,
           {<<"value", <<1>>>>}),
      Node("com.microsoft", "Attention",
           <<"hidden_states", "qkv_weight", "qkv_bias", "attention_mask_2d">>,
           <<"attn_output", "present">>,
           {<<"unidirectional", 1>>, <<"do_rotary", 1>>,
            <<"rotary_embedding_dim", ((config.head_size \div 2) \div 32) * 32>>,
            <<"num_heads", config.num_attention_heads>>}),
      Node("", "Gather", <<"present">>, <<"present_key">>, {<<"indices", 0>>}),
      Node("", "Gather", <<"present">>, <<"present_value">>, {<<"indices", 1>>}),
      Node("", "Transpose", <<"dense_weight">>, <<"dense_weight_t">>,
           {<<"perm", <<1, 0>>>>}),
      Node("", "MatMul", <<"attn_output", "dense_weight_t">>, <<"dense">>, {}),
      Node("", "Add", <<"dense", "dense_bias">>, <<"output">>, {})>>

\* the parameters of mha and gqa in the rules for LlamaAttention
LlamaAttentionParameters ==
    <<"hidden_states", "position_id", "attention_mask", "q_proj_weight",
      "k_proj_weight", "v_proj_weight", "cos_cached", "sin_cached", "o_proj_weight">>

\* what a fusion method returns: onnxscript.script(...)(f).to_function_proto() of
\* the function f with these parameters, nodes and returned values, and the
\* com.microsoft opset
Fused(input, nodes, output) ==
    [exc |-> "",
     function |-> [input |-> input, nodes |-> nodes, output |-> output],
     opsets |-> <<<<"com.microsoft", 1>>>>]

\* MHALlama2RewriteRule._fusion_with_4d_cache, lines 105-172
MHALlama2_fusion_with_4d_cache(fn) ==
    IF Len(fn.input) # 9 THEN Raise("FunctionRewriteError")
    ELSE Then(infer_attn_size_config(fn),
              LAMBDA r :
                Fused(LlamaAttentionParameters,
                      Projections \o CosSinOf4dCache(<<r.config.head_size \div 2>>)
                          \o RotaryEmbeddings \o MultiHeadAttention(r.config),
                      <<"present_value", "present_key", "attn_output">>))

\* MHALlama2RewriteRule._fusion_with_2d_cache, lines 174-234
MHALlama2_fusion_with_2d_cache(fn) ==
    Then(infer_attn_size_config(fn),
         LAMBDA r :
            IF Len(fn.input) # 9 THEN Raise("FunctionRewriteError")
            ELSE Fused(LlamaAttentionParameters,
                       Projections \o CosSinOf2dCache(<<r.config.head_size \div 2>>)
                           \o RotaryEmbeddings \o MultiHeadAttention(r.config),
                       <<"present_value", "present_key", "attn_output">>))

\* GQALlama2RewriteRule._fusion_with_4d_cache, lines 245-314
GQALlama2_fusion_with_4d_cache(fn) ==
    IF Len(fn.input) # 9 THEN Raise("FunctionRewriteError")
    ELSE Then(infer_attn_size_config(fn),
              LAMBDA r :
                Fused(LlamaAttentionParameters,
                      Projections \o CosSinOf4dCache(<<r.config.head_size \div 2>>)
                          \o RotaryEmbeddings \o GroupQueryAttention(r.config),
                      <<"present_value", "present_key", "attn_output">>))

\* GQALlama2RewriteRule._fusion_with_2d_cache, lines 316-382
GQALlama2_fusion_with_2d_cache(fn) ==
    Then(infer_attn_size_config(fn),
         LAMBDA r :
            IF Len(fn.input) # 9 THEN Raise("FunctionRewriteError")
            ELSE Fused(LlamaAttentionParameters,
                       Projections \o CosSinOf2dCache(<<r.config.head_size \div 2>>)
                           \o RotaryEmbeddings \o GroupQueryAttention(r.config),
                       <<"present_value", "present_key", "attn_output">>))

\* GQALlamaSdpa2RewriteRule._fusion, lines 397-456: no test of the number of inputs
GQALlamaSdpa2_fusion(fn) ==
    Then(infer_attn_size_config(fn),
         LAMBDA r :
            Fused(<<"hidden_states", "position_id", "q_proj_weight", "k_proj_weight",
                    "v_proj_weight", "cos_cached", "sin_cached", "o_proj_weight">>,
                  Projections \o CosSinOf2dCache(<<r.config.head_size \div 2>>)
                      \o RotaryEmbeddings \o GroupQueryAttention(r.config),
                  <<"present_value", "present_key", "attn_output">>))

\* GQALlamaSdpa2RewriteRule._fusion_without_cos_sin_cache, lines 458-532
GQALlamaSdpa2_fusion_without_cos_sin_cache(fn) ==
    Then(infer_attn_size_config(fn),
         LAMBDA r :
            Fused(<<"hidden_states", "position_id", "causal_mask", "cache_position",
                    "q_proj_weight", "k_proj_weight", "v_proj_weight", "inv_freq",
                    "o_proj_weight">>,
                  Projections \o CosSinOfInvFreq(<<r.config.head_size \div 2>>)
                      \o RotaryEmbeddings \o GroupQueryAttention(r.config),
                  <<"present_value", "present_key", "attn_output">>))

\* AttnPhi15RewriteRule._fusion, lines 543-603
AttnPhi15_fusion(fn) ==
    Then(infer_attn_size_config(fn),
         LAMBDA r :
            Fused(<<"hidden_states", "position_id", "attention_mask", "q_proj_weight",
                    "q_proj_bias", "k_proj_weight", "k_proj_bias", "v_proj_weight",
                    "v_proj_bias", "cos_cached", "sin_cached", "dense_weight",
                    "dense_bias">>,
                  PhiAttention(r.config),
                  <<"present_value", "present_key", "output">>))

\* ---- the functions the methods are called on
\* head sizes and hidden sizes go up to MaxUnits multiples of 32 and of 64
MaxUnits == 8

HeadSizes == {0, 2} \cup {32 * k : k \in 1..MaxUnits}

HiddenSizes == {0, 5} \cup {64 * k : k \in 1..MaxUnits \div 2}

\* what the rule knows of present_value: nothing, no shape, or a shape; a 4-D
\* cache is [batch, num_key_value_heads, sequence, head_size]
PresentValueShapes ==
    {NoShape} \cup {Shape(SubSeq(<<1, 2, 3>>, 1, n)) : n \in 0..3}
        \cup {Shape(<<1, kv, 3, h>>) : kv \in {1, 2}, h \in HeadSizes}
        \cup {Shape(<<1, 2, 3, 64, 1>>)}

\* what the rule knows of attn_output; [batch, sequence, hidden_size] when 3-D
AttnOutputShapes ==
    {NoShape} \cup {Shape(<<1, 3>>), Shape(<<1, 3, 128, 1>>)}
        \cup {Shape(<<1, 3, h>>) : h \in HiddenSizes}

\* the function has a value for the name, or not
ShapesKnown(present, attn) ==
    {[n \in names |-> IF n = "present_value" THEN present ELSE attn] :
        names \in SUBSET {"present_value", "attn_output"}}

\* functions of 8, 9, 10 or 13 inputs and 2, 3 or 4 outputs
AttentionFunctions ==
    {FunctionProto([k \in 1..n |-> k],
                   SubSeq(<<"present_value", "present_key", "attn_output", "extra">>,
                          1, m),
                   shapes) :
        n \in {8, 9, 10, 13}, m \in {2, 3, 4},
        shapes \in UNION {ShapesKnown(p, a) : p \in PresentValueShapes,
                                              a \in AttnOutputShapes}}

Methods ==
    {"infer_attn_size_config", "MHALlama2._fusion_with_4d_cache",
     "MHALlama2._fusion_with_2d_cache", "GQALlama2._fusion_with_4d_cache",
     "GQALlama2._fusion_with_2d_cache", "GQALlamaSdpa2._fusion",
     "GQALlamaSdpa2._fusion_without_cos_sin_cache", "AttnPhi15._fusion"}

InitAttn ==
    /\ GuardIdle
    /\ OptIdle
    /\ pc = "idle"
    /\ model = EmptyGraph
    /\ SerdeIdle
    /\ sourceFunction \in AttentionFunctions
    /\ method \in Methods
    /\ result = <<>>
    /\ apc = "call"

\* the call of the method on the function: it returns or raises
Called(name, r) ==
    /\ apc = "call"
    /\ method = name
    /\ result' = r
    /\ apc' = IF Returned(r) THEN "returned" ELSE "raised"
    /\ UNCHANGED <<sourceFunction, method, guardVars, optVars, serdeVars>>

InferAttnSizeConfig ==
    \E r \in {infer_attn_size_config(sourceFunction)} :
        Called("infer_attn_size_config", r)

MHALlama2FusionWith4dCache ==
    \E r \in {MHALlama2_fusion_with_4d_cache(sourceFunction)} :
        Called("MHALlama2._fusion_with_4d_cache", r)

MHALlama2FusionWith2dCache ==
    \E r \in {MHALlama2_fusion_with_2d_cache(sourceFunction)} :
        Called("MHALlama2._fusion_with_2d_cache", r)

GQALlama2FusionWith4dCache ==
    \E r \in {GQALlama2_fusion_with_4d_cache(sourceFunction)} :
        Called("GQALlama2._fusion_with_4d_cache", r)

GQALlama2FusionWith2dCache ==
    \E r \in {GQALlama2_fusion_with_2d_cache(sourceFunction)} :
        Called("GQALlama2._fusion_with_2d_cache", r)

GQALlamaSdpa2Fusion ==
    \E r \in {GQALlamaSdpa2_fusion(sourceFunction)} :
        Called("GQALlamaSdpa2._fusion", r)

GQALlamaSdpa2FusionWithoutCosSinCache ==
    \E r \in {GQALlamaSdpa2_fusion_without_cos_sin_cache(sourceFunction)} :
        Called("GQALlamaSdpa2._fusion_without_cos_sin_cache", r)

AttnPhi15Fusion ==
    \E r \in {AttnPhi15_fusion(sourceFunction)} :
        Called("AttnPhi15._fusion", r)

NextAttn ==
    \/ InferAttnSizeConfig
    \/ MHALlama2FusionWith4dCache
    \/ MHALlama2FusionWith2dCache
    \/ GQALlama2FusionWith4dCache
    \/ GQALlama2FusionWith2dCache
    \/ GQALlamaSdpa2Fusion
    \/ GQALlamaSdpa2FusionWithoutCosSinCache
    \/ AttnPhi15Fusion

SpecAttn == InitAttn /\ [][NextAttn]_vars


(***************************************************************************)
(* C24: infer_attn_size_config                                             *)
(***************************************************************************)
\* infer_attn_size_config was called on the function and the call is over
InferCalled == method = "infer_attn_size_config" /\ apc # "call"

\* the named output of a function of 3 outputs cannot be looked up or has no
\* known shape
NoKnownShape(fn, k) ==
    \/ fn.output[k] \notin DOMAIN fn.shapes
    \/ fn.shapes[fn.output[k]].tag = "None"

\* the function does not have exactly 3 outputs, or present_value or attn_output
\* cannot be looked up or has no known shape
NoSizes(fn) ==
    \/ Len(fn.output) # 3
    \/ NoKnownShape(fn, 1)
    \/ NoKnownShape(fn, 3)

\* the shapes of the first and the third output
ShapeOfOutput(fn, k) == fn.shapes[fn.output[k]].dims

\* the call returned the sizes read from the two shapes
ReturnedSizes(fn) ==
    /\ apc = "returned"
    /\ result.config.head_size = ShapeOfOutput(fn, 1)[4]
    /\ result.config.num_key_value_heads = ShapeOfOutput(fn, 1)[2]
    /\ result.config.hidden_size = ShapeOfOutput(fn, 3)[3]
    /\ result.config.num_attention_heads
           = ShapeOfOutput(fn, 3)[3] \div ShapeOfOutput(fn, 1)[4]

\* present_value.shape[3] and attn_output.shape[2] exist and the first is not 0
SizesReadable(fn) ==
    /\ Len(ShapeOfOutput(fn, 1)) >= 4
    /\ Len(ShapeOfOutput(fn, 3)) >= 3
    /\ ShapeOfOutput(fn, 1)[4] # 0

FusionCalled == method # "infer_attn_size_config" /\ apc # "call"

\* the number of parameters of the function the method writes
ReplacementParameters ==
    CASE method \in {"MHALlama2._fusion_with_4d_cache", "MHALlama2._fusion_with_2d_cache",
                     "GQALlama2._fusion_with_4d_cache", "GQALlama2._fusion_with_2d_cache"}
             -> 9
      [] method = "GQALlamaSdpa2._fusion" -> 8
      [] method = "GQALlamaSdpa2._fusion_without_cos_sin_cache" -> 9
      [] method = "AttnPhi15._fusion" -> 13

\* the outputs are (present_value, present_key, output of the attention block)
ThreeOutputsInOrder(fn) ==
    /\ Len(fn.output) = 3
    /\ fn.output[1] = "present_value"
    /\ fn.output[2] = "present_key"
    /\ fn.output[3] \in {"attn_output", "output"}
    /\ \A k \in 1..3 : \E i \in 1..Len(fn.nodes) :
           \E o \in 1..Len(fn.nodes[i].outputs) : fn.nodes[i].outputs[o] = fn.output[k]

\* a source function with another number of inputs is rejected
OtherInputCountRejected ==
    Len(sourceFunction.input) # ReplacementParameters
        => apc = "raised" /\ result.exc = "FunctionRewriteError"

\* the fused function has 3 outputs in order and as many inputs as the source
InterfaceKept ==
    apc = "returned" =>
        /\ ThreeOutputsInOrder(result.function)
        /\ Len(result.function.input) = ReplacementParameters

\* C25: every attention fusion method returns a function with exactly the 3
\* outputs (present_value, present_key, attn_output) in this order, and rejects
\* with FunctionRewriteError a source function whose number of inputs differs
\* from the number of parameters of the replacement
C25_PositionalInterfaceKept ==
    FusionCalled => InterfaceKept /\ OtherInputCountRejected

\* the rules for LlamaAttention never rewrite a function with another number of
\* inputs, and reject it with FunctionRewriteError when they test the number
\* before they read the sizes
LlamaAttentionRulesRejectOtherInputCounts ==
    FusionCalled /\ Len(sourceFunction.input) # 9 =>
        /\ method \in {"MHALlama2._fusion_with_4d_cache",
                       "GQALlama2._fusion_with_4d_cache"}
              => apc = "raised" /\ result.exc = "FunctionRewriteError"
        /\ method \in {"MHALlama2._fusion_with_2d_cache",
                       "GQALlama2._fusion_with_2d_cache"}
              => apc = "raised"

\* LlamaSdpaAttention of 9 inputs was rewritten to a function of 8 parameters
SdpaRewrittenWithOtherInputCount ==
    /\ method = "GQALlamaSdpa2._fusion"
    /\ apc = "returned"
    /\ Len(sourceFunction.input) = 9
    /\ Len(result.function.input) = 8

\* every method returns three outputs in order
FusedInterface == FusionCalled => InterfaceKept


(***************************************************************************)
(* C26: rotary_embedding_dim of the Attention node                         *)
(***************************************************************************)
\* AttnPhi15RewriteRule._fusion accepted the function and returned the fused one
PhiFused == method = "AttnPhi15._fusion" /\ apc = "returned"

\* the com.microsoft Attention node of the fused function
AttentionNode(fn) ==
    fn.nodes[CHOOSE i \in 1..Len(fn.nodes) : fn.nodes[i].op_type = "Attention"]

\* the head size the rule read from present_value
AcceptedHeadSize == sourceFunction.shapes["present_value"].dims[4]

\* C26: for every head_size AttnPhi15RewriteRule accepts, the rotary_embedding_dim
\* given to the Attention node, head_size // 2 // 32 * 32, is 32, 64 or 128
C26_RotaryEmbeddingDimSupported ==
    PhiFused =>
        AttrOf(AttentionNode(result.function), "rotary_embedding_dim") \in {32, 64, 128}

\* it is one of the three for the head sizes 64, 128 and 256
RotaryEmbeddingDimOfPowersOfTwo ==
    PhiFused /\ AcceptedHeadSize \in {64, 128, 256} =>
        AttrOf(AttentionNode(result.function), "rotary_embedding_dim")
            = AcceptedHeadSize \div 2

\* a head size of 32 is accepted and gives rotary_embedding_dim 0
RotaryEmbeddingDimZero ==
    /\ PhiFused
    /\ AcceptedHeadSize = 32
    /\ AttrOf(AttentionNode(result.function), "rotary_embedding_dim") = 0


(***************************************************************************)
(* C29: consistency of the returned AttnSizeConfig                         *)
(***************************************************************************)
\* C29: whenever infer_attn_size_config returns, the sizes are consistent:
\* num_attention_heads * head_size = hidden_size
C29_SizesConsistent ==
    InferCalled /\ apc = "returned" =>
        result.config.num_attention_heads * result.config.head_size
            = result.config.hidden_size

\* they are consistent exactly when head_size divides hidden_size; when it does
\* not, the product is the largest multiple of head_size below hidden_size
SizesConsistentUpToRemainder ==
    InferCalled /\ apc = "returned" =>
        result.config.num_attention_heads * result.config.head_size
            = result.config.hidden_size
                  - (result.config.hidden_size % result.config.head_size)

\* a hidden size of 5 over heads of size 2 gives 2 heads
TwoHeadsOfTwoForFive ==
    /\ InferCalled
    /\ apc = "returned"
    /\ result.config = AttnSizeConfig(2, 1, 2, 5)


(***************************************************************************)
(* C27: totality of check_if_need_reshape                                  *)
(***************************************************************************)
\* the guard was called on shapes of rank >= 1 and a known 1-D shape_c
CalledOnRanksAtLeastOne ==
    /\ CalledOnKnown
    /\ calls >= 1
    /\ Len(ShapeOfA) >= 1
    /\ Len(ShapeOfB) >= 1

\* C27: for every input_a shape and input_b shape of rank >= 1 and every known
\* 1-D shape_c, check_if_need_reshape ends with True or False and does not raise
C27_GuardTotal ==
    CalledOnRanksAtLeastOne => ret \in {"True", "False"}

\* it does for all ranks but 1-D with 1-D, 1-D with 2-D and 2-D with 1-D
GuardTotalOnOtherRanks ==
    CalledOnRanksAtLeastOne /\ Len(ShapeOfA) + Len(ShapeOfB) >= 4
        => ret \in {"True", "False"}

\* the guard raised IndexError on two 1-D shapes
RaisedOnTwoVectors ==
    /\ CalledOnRanksAtLeastOne
    /\ Len(ShapeOfA) = 1
    /\ Len(ShapeOfB) = 1
    /\ ret = "IndexError"


(***************************************************************************)
(* C28: the shapes of Add(MatMul(input_a, input_b), input_c)               *)
(***************************************************************************)
RECURSIVE NumElements(_)
\* the number of elements of a tensor of this shape
NumElements(shape) ==
    IF shape = <<>> THEN 1 ELSE Head(shape) * NumElements(Tail(shape))

\* the Gemm of the chain reads input_a reshaped to [M, K], with K the rows of input_b
GemmOutputShape ==
    <<NumElements(ShapeOfA) \div ShapeOfB[1], ShapeOfB[2]>>

ShapeOfBias == bindings0.input_c.shape.dims

\* input_c is a valid bias of that Gemm: unidirectionally broadcastable to [M, N]
ValidGemmBias ==
    /\ Len(ShapeOfBias) <= 2
    /\ \A i \in 1..2 :
          PadLeft(ShapeOfBias, 2)[i] \in {1, GemmOutputShape[i]}

\* the Add of the replacement is defined and its output has shape shape_c
AddYieldsShapeC ==
    /\ MatMulShape(ShapeOfA, ShapeOfB).ok
    /\ BroadcastShapes(MatMulShape(ShapeOfA, ShapeOfB).dims, ShapeOfBias).ok
    /\ BroadcastShapes(MatMulShape(ShapeOfA, ShapeOfB).dims, ShapeOfBias).dims = ShapeC

\* C28: whenever the guard accepted a match of the Gemm rule and input_c was a
\* valid bias of the Gemm on the reshaped input, input_c is broadcast-compatible
\* with the output of MatMul(input_a, input_b) and the Add yields shape_c
C28_AddShapeValid ==
    gkind = "gemm" /\ Applied("gemm_to_matmul_add_rule") /\ ValidGemmBias
        => AddYieldsShapeC

\* it is for a bias that is a row, [N] or [1, N]
AddShapeValidForRowBias ==
    /\ gkind = "gemm"
    /\ Applied("gemm_to_matmul_add_rule")
    /\ ShapeOfBias \in {<<ShapeOfB[2]>>, <<1, ShapeOfB[2]>>}
    => AddYieldsShapeC

\* the rule was applied to a Gemm over the [6, 4] reshape of a [2, 3, 4] input
\* with a bias of shape [6, 5]
RewrittenWithFullBias ==
    /\ gkind = "gemm"
    /\ Applied("gemm_to_matmul_add_rule")
    /\ ShapeOfA = <<2, 3, 4>>
    /\ ShapeOfBias = <<6, 5>>
    /\ ValidGemmBias
    /\ ~BroadcastShapes(MatMulShape(ShapeOfA, ShapeOfB).dims, ShapeOfBias).ok


(***************************************************************************)
(* C30: the two Transposes of the group_normalization replacement          *)
(***************************************************************************)
\* ONNX Transpose: axis i of the output is axis perm[i] of the input
Transposed(axes, perm) == [i \in 1..Len(perm) |-> axes[perm[i] + 1]]

\* the Transpose nodes of the replacement that was built, in order
TransposeNodes ==
    SelectSeq(model.nodes, LAMBDA n : n.op_type = "Transpose")

\* the first Transpose reads input_x, GroupNorm reads its output, the second
\* Transpose reads the output of GroupNorm and is the last node
TransposesAroundGroupNorm ==
    /\ Len(TransposeNodes) = 2
    /\ TransposeNodes[1].inputs = <<Repl("input_x")>>
    /\ TransposeNodes[2] = model.nodes[Len(model.nodes)]
    /\ \A i \in GroupNormNodes :
          /\ model.nodes[i].inputs[1] = TransposeNodes[1].outputs[1]
          /\ model.nodes[i].outputs = TransposeNodes[2].inputs

\* C30: in the replacement that group_normalization builds, transposing with the
\* perm of the first Transpose, [0, 2, 3, 1], and then with the perm of the
\* second, [0, 3, 1, 2], is the identity on the axis order, so the output has
\* the NCHW axis order and the shape of input_x
C30_PermutationsInverse ==
    gkind = "instnorm" /\ pc = "replaced" =>
        /\ TransposesAroundGroupNorm
        /\ AttrOf(TransposeNodes[1], "perm") = <<0, 2, 3, 1>>
        /\ AttrOf(TransposeNodes[2], "perm") = <<0, 3, 1, 2>>
        /\ Transposed(<<"N", "C", "H", "W">>, AttrOf(TransposeNodes[1], "perm"))
              = <<"N", "H", "W", "C">>
        /\ Transposed(Transposed(<<"N", "C", "H", "W">>,
                                 AttrOf(TransposeNodes[1], "perm")),
                      AttrOf(TransposeNodes[2], "perm"))
              = <<"N", "C", "H", "W">>
        /\ Transposed(Transposed(bindings0.input_x.shape.dims,
                                 AttrOf(TransposeNodes[1], "perm")),
                      AttrOf(TransposeNodes[2], "perm"))
              = bindings0.input_x.shape.dims

\* a replacement was built for an input of shape [1, 4, 2, 2], which the first
\* Transpose turns into [1, 2, 2, 4]
C30_ChannelsLastInBetween ==
    /\ gkind = "instnorm"
    /\ pc = "replaced"
    /\ Len(TransposeNodes) = 2
    /\ bindings0.input_x.shape.dims = <<1, 4, 2, 2>>
    /\ Transposed(bindings0.input_x.shape.dims, AttrOf(TransposeNodes[1], "perm"))
          = <<1, 2, 2, 4>>

==========================================================================
